---- MODULE Spec2Model ----
(***************************************************************************)
(* Auto-Gather documentation server: the ingestion-and-search pipeline.    *)
(* Store (StorageService), Extractor (ParserService), Crawler              *)
(* (CrawlerService) and Index (SearchService), driven by the request       *)
(* handlers of ToolsHandler.                                               *)
(*                                                                         *)
(* Paths and glob patterns are sequences of one-character strings, so that *)
(* matchGlob, path.extname and path.relative are computed character by     *)
(* character.  Time is an integer clock (milliseconds, abstractly).        *)
(***************************************************************************)
EXTENDS Integers, Sequences, FiniteSets, TLC

VARIABLES
  clock,            \* Date.now()
  fs,               \* mutable part of the file system: file -> [bytes, mtime]
  sources,          \* table sources:       id -> SourceConfig
  documents,        \* table documents:     id -> Document
  status,           \* table source_status: source id -> SourceStatus
  nextId,           \* number of ids handed out by handleAddSource
  run,              \* the crawlSource invocation in progress / last returned
  parked,           \* a second crawlSource invocation, waiting for its I/O
                    \* while `run` proceeds (or returned before it)
  idxDocs,          \* SearchService.documents
  fuseRecords,      \* SearchService.fuse: the records of the match structure,
                    \* one per position of the array it was built on
  lastIndexUpdate,  \* SearchService.lastIndexUpdate
  searchResult,     \* what the last search() returned: documents and scores
  lastOp,           \* the operation that produced the current state
  crawledMtime,     \* history: document id -> mtime the file had when stored
  quiet,            \* history: nothing but the clock changed since the last Run began
  batch,            \* the crawlAllEnabledSources invocation in progress / last returned
  reply             \* what the last tool call that returned gave back: a value or an error

vars == <<clock, fs, sources, documents, status, nextId, run, parked, idxDocs, fuseRecords,
          lastIndexUpdate, searchResult, lastOp, crawledMtime, quiet,
          batch, reply>>

(***************************************************************************)
(* Bounds of the model.                                                    *)
(***************************************************************************)
MaxClock == 2        \* the clock runs from 1 to MaxClock
MaxFaults == 1       \* file-system calls that fail during one Run

\* the ids handleAddSource hands out, in this order
SourceIds == {1, 2}

(***************************************************************************)
(* Program constants.                                                      *)
(***************************************************************************)
DefaultMaxDepth == 10
DefaultMaxSize == 10485760

\* undefined / null / absent.  A missing number or date is 0 and a missing
\* string is "": the store's `x || null` writes treat them alike.  An optional
\* object is a sequence of length 0 or 1.
NoTime == 0

(***************************************************************************)
(* Generic helpers.                                                        *)
(***************************************************************************)
Range(f) == {f[x] : x \in DOMAIN f}

Min(a, b) == IF a <= b THEN a ELSE b

MaxOf(S) == CHOOSE m \in S : \A x \in S : x <= m

\* f with key k (re)bound to v: INSERT OR REPLACE keyed by k
Upsert(f, k, v) == [x \in (DOMAIN f) \cup {k} |-> IF x = k THEN v ELSE f[x]]

\* f without the keys in K: DELETE
Without(f, K) == [x \in (DOMAIN f) \ K |-> f[x]]

(***************************************************************************)
(* Characters and strings.  String.prototype.toLowerCase and the 'i' flag  *)
(* of RegExp fold the upper-case letters that occur in the model's paths.  *)
(***************************************************************************)
LowerChar(c) ==
  CASE c = "B" -> "b"
    [] c = "M" -> "m"
    [] c = "D" -> "d"
    [] OTHER -> c

toLowerCase(s) == [i \in 1..Len(s) |-> LowerChar(s[i])]

\* index of the last occurrence of character c in s, 0 when there is none
LastIndexOf(s, c) ==
  LET at == {i \in 1..Len(s) : s[i] = c} IN
  IF at = {} THEN 0 ELSE MaxOf(at)

\* path.basename(p)
basename(p) == SubSeq(p, LastIndexOf(p, "/") + 1, Len(p))

\* path.extname(p): from the last dot of the base name, '' when the base name
\* has no dot or only a leading one
extname(p) ==
  LET b == basename(p)
      i == LastIndexOf(b, ".")
  IN IF i <= 1 THEN <<>> ELSE SubSeq(b, i, Len(b))

\* path.relative(root, path.join(dirPath, name)), dirPath given relative to root
JoinRel(dirRel, name) ==
  IF dirRel = <<>> THEN name ELSE dirRel \o <<"/">> \o name

(***************************************************************************)
(* CrawlerService.matchGlob: the pattern is rewritten to a regular         *)
(* expression (a dot becomes an escaped dot, a star becomes dot-star, a    *)
(* question mark becomes a dot) which is anchored and tested               *)
(* case-insensitively.  A regular expression is a sequence of tokens: a    *)
(* literal character, "any" (one character) or "star" (any run).           *)
(***************************************************************************)
RegexToken(c) ==
  CASE c = "*" -> [t |-> "star", c |-> ""]
    [] c = "?" -> [t |-> "any", c |-> ""]
    [] OTHER   -> [t |-> "lit", c |-> c]

GlobToRegex(pattern) == [i \in 1..Len(pattern) |-> RegexToken(pattern[i])]

\* does the anchored regular expression re match the whole of s
RECURSIVE RegexTest(_, _)
RegexTest(re, s) ==
  IF re = <<>> THEN s = <<>>
  ELSE LET k == Head(re) IN
    CASE k.t = "star" ->
           \/ RegexTest(Tail(re), s)
           \/ (s # <<>> /\ RegexTest(re, Tail(s)))
      [] k.t = "any" -> s # <<>> /\ RegexTest(Tail(re), Tail(s))
      [] OTHER ->
           /\ s # <<>>
           /\ LowerChar(Head(s)) = LowerChar(k.c)
           /\ RegexTest(Tail(re), Tail(s))

matchGlob(path, pattern) == RegexTest(GlobToRegex(pattern), path)

(***************************************************************************)
(* The file system the crawler reads.  The directory tree is fixed:        *)
(*     docs/a.md   docs/drafts/   docs/drafts/B.MD   docs/drafts/img.png   *)
(* and the environment rewrites the bytes and the modification time of     *)
(* a.md; B.MD begins with a front matter.  "afile" is a path that exists   *)
(* and is not a directory, "missing" a path that does not exist, and       *)
(* "late" a path at which the environment puts the same tree when the      *)
(* clock reads LateTime.                                                   *)
(***************************************************************************)
LateTime == 2

P_a == <<"a", ".", "m", "d">>
P_drafts == <<"d", "r", "a", "f", "t", "s">>
N_b == <<"B", ".", "M", "D">>
P_b == JoinRel(P_drafts, N_b)
N_img == <<"i", "m", "g", ".", "p", "n", "g">>
P_img == JoinRel(P_drafts, N_img)

RootRel == <<>>

Files == {P_a, P_b, P_img}
Writable == {P_a}
Contents == {"v1", "v2"}
Mtimes == 1..(MaxClock + 1)

\* fs.readdir(dir, {withFileTypes: true}) of the directory with relative path d
readdir(d) ==
  IF d = RootRel
    THEN << [name |-> P_a, kind |-> "file"],
            [name |-> P_drafts, kind |-> "dir"] >>
  ELSE IF d = P_drafts
    THEN << [name |-> N_b, kind |-> "file"],
            [name |-> N_img, kind |-> "file"] >>
  ELSE <<>>

\* stats.size and stats.birthtime of a file
FileSize(f) == IF f = P_b THEN 3 ELSE 1
Birthtime(f) == 1

\* what fs.stat(rootPath) finds for the path of a source url
RootKind(url) ==
  CASE url = "docs"  -> "dir"
    [] url = "afile" -> "file"
    [] url = "late"  -> IF clock < LateTime THEN "missing" ELSE "dir"
    [] OTHER         -> "missing"

(***************************************************************************)
(* Source configurations handed to handleAddSource.                        *)
(***************************************************************************)
G_md == <<"*", ".", "m", "d">>                                  \* *.md
G_draftsAll == <<"d", "r", "a", "f", "t", "s", "/", "*", "*">>  \* drafts/**
G_draftsStar == <<"d", "r", "a", "f", "t", "s", "*">>           \* drafts*

\* source.filters; maxDepth and maxSize are optional numbers: <<>> when not
\* configured, <<n>> when configured as n
Filters(inc, exc, depth, size) ==
  [defined |-> TRUE, include |-> inc, exclude |-> exc,
   maxDepth |-> depth, maxSize |-> size]

\* source.filters undefined
NoFilters == [Filters(<<>>, <<>>, <<>>, <<>>) EXCEPT !.defined = FALSE]

FilterConfigs ==
  { NoFilters,
    Filters(<<>>, <<G_draftsAll>>, <<>>, <<>>),
    Filters(<<G_md>>, <<G_draftsAll>>, <<>>, <<>>),
    Filters(<<G_md, P_drafts>>, <<G_draftsAll>>, <<>>, <<>>),
    Filters(<<>>, <<G_draftsStar>>, <<>>, <<>>),
    Filters(<<>>, <<>>, <<1>>, <<>>),
    Filters(<<>>, <<>>, <<>>, <<2>>),
    Filters(<<>>, <<>>, <<0>>, <<>>),
    Filters(<<>>, <<>>, <<>>, <<0>>) }

SourceTypes == {"local", "git", "web", "api"}

SourceArgs ==
  {[name |-> "docs", type |-> "local", url |-> "docs", filters |-> f] : f \in FilterConfigs}
  \cup {[name |-> u, type |-> "local", url |-> u, filters |-> NoFilters] : u \in {"afile", "missing"}}
  \cup {[name |-> t, type |-> t, url |-> "remote", filters |-> NoFilters] : t \in SourceTypes \ {"local"}}

(***************************************************************************)
(* ParserService.                                                          *)
(***************************************************************************)
SupportedExtensions ==
  { <<".", "m", "d">>, <<".", "m", "a", "r", "k", "d", "o", "w", "n">>,
    <<".", "h", "t", "m", "l">>, <<".", "h", "t", "m">>, <<".", "p", "d", "f">>,
    <<".", "t", "x", "t">>, <<".", "j", "s", "o", "n">> }

canParse(filePath) == toLowerCase(extname(filePath)) \in SupportedExtensions

DocumentType(ext) ==
  CASE ext \in {<<".", "m", "d">>, <<".", "m", "a", "r", "k", "d", "o", "w", "n">>} -> "markdown"
    [] ext \in {<<".", "h", "t", "m", "l">>, <<".", "h", "t", "m">>} -> "html"
    [] ext = <<".", "p", "d", "f">> -> "pdf"
    [] ext = <<".", "t", "x", "t">> -> "text"
    [] ext = <<".", "j", "s", "o", "n">> -> "json"
    [] OTHER -> "text"

\* createHash('md5').update(buffer): one digest per byte content
Md5(bytes) == <<"md5", bytes>>

\* path.join(rootPath, relativePath)
FullPath(url, rel) == [root |-> url, rel |-> rel]

\* the characters of a source url, of a source id and of a full path
UrlChars(url) ==
  CASE url = "docs"    -> <<"d", "o", "c", "s">>
    [] url = "afile"   -> <<"a", "f", "i", "l", "e">>
    [] url = "missing" -> <<"m", "i", "s", "s", "i", "n", "g">>
    [] url = "remote"  -> <<"r", "e", "m", "o", "t", "e">>
    [] url = "late"    -> <<"l", "a", "t", "e">>
    [] OTHER           -> <<>>

IdChars(sourceId) ==
  <<"s", <<"0", "1", "2", "3", "4", "5", "6", "7", "8", "9">>[sourceId + 1]>>

PathChars(filePath) ==
  IF filePath.rel = <<>> THEN UrlChars(filePath.root)
  ELSE UrlChars(filePath.root) \o <<"/">> \o filePath.rel

\* (variant: the digest is taken of the path alone)
DocId_PathOnly(sourceId, filePath) == <<"sha256", PathChars(filePath)>>

\* createHash('sha256').update(`${sourceId}:${filePath}`): one digest per
\* string
DocId(sourceId, filePath) ==
  <<"sha256", IdChars(sourceId) \o <<":">> \o PathChars(filePath)>>

\* the names of the model as strings
Str(chars) ==
  CASE chars = <<"a">> -> "a"
    [] chars = P_a -> "a.md"
    [] chars = N_b -> "B.MD"
    [] chars = <<"i", "m", "g">> -> "img"
    [] chars = N_img -> "img.png"
    [] chars = <<".", "m", "d">> -> ".md"
    [] chars = <<".", "p", "n", "g">> -> ".png"
    [] OTHER -> ""

\* path.basename(p, ext): the base name without the suffix ext, when it ends
\* with exactly ext and is longer than it
basenameExt(p, ext) ==
  LET b == basename(p) IN
  IF Len(b) > Len(ext) /\ SubSeq(b, Len(b) - Len(ext) + 1, Len(b)) = ext
    THEN SubSeq(b, 1, Len(b) - Len(ext))
    ELSE b

\* values kept in metadata: a Date, and the string JSON makes of it
JsDate(t) == [t |-> "date", v |-> t]

IsoString(t) == [t |-> "string", v |-> t]

\* the file contents of the model: "v1" is the plain text v1, "v2" is the
\* heading  # v2  and "fm" is the text v1 preceded by the front matter
\* tags: [t1]  date: <a date>
FrontMatter(bytes) ==
  IF bytes = "fm" THEN <<[tags |-> <<"t1">>, date |-> JsDate(1)]>> ELSE <<>>

Body(bytes) == IF bytes = "fm" THEN "v1" ELSE bytes

\* markdownContent.match(/^#\s+(.+)$/m): the text of the first heading, or ""
FirstHeading(markdownContent) == IF markdownContent = "v2" THEN "v2" ELSE ""

\* parseMarkdown: no title in the front matter, so the title is the first
\* heading; the content is the rendered text without its tags; the tags of
\* the front matter; metadata.frontmatter
parseMarkdown(bytes) ==
  LET frontmatter == FrontMatter(bytes) IN
  [ title |-> FirstHeading(Body(bytes)), content |-> Body(bytes),
    date |-> IF frontmatter = <<>> THEN <<>> ELSE <<frontmatter[1].date>>,
    tags |-> IF frontmatter = <<>> THEN <<>> ELSE <<frontmatter[1].tags>> ]

\* parseText: the first line is the title
parseText(bytes) ==
  [title |-> bytes, content |-> bytes, date |-> <<>>, tags |-> <<>>]

\* parseFile(filePath, sourceId) at time now; thrown is TRUE when reading or
\* parsing the file throws inside the try block, and the result is then null
\* (the empty sequence); otherwise the result is the Document.  metadata,
\* tags, size and checksum are optional.
parseFile(url, rel, sourceId, now, thrown) ==
  IF thrown THEN <<>>
  ELSE LET ext == toLowerCase(extname(rel))
           parseResult == IF DocumentType(ext) = "markdown"
                            THEN parseMarkdown(fs[rel].bytes)
                            ELSE parseText(fs[rel].bytes)
       IN
   << [ id        |-> DocId(sourceId, FullPath(url, rel)),
      title     |-> IF parseResult.title # "" THEN parseResult.title
                    ELSE Str(basenameExt(rel, ext)),
      content   |-> parseResult.content,
      type      |-> DocumentType(ext),
      sourceId  |-> sourceId,
      sourcePath |-> FullPath(url, rel),
      metadata  |-> << [ frontmatterDate |-> parseResult.date,
                         fileName |-> Str(basename(rel)),
                         extension |-> Str(ext) ] >>,
      tags      |-> parseResult.tags,
      createdAt |-> Birthtime(rel),
      updatedAt |-> IF fs[rel].mtime > now THEN now ELSE fs[rel].mtime,
      size      |-> <<FileSize(rel)>>,
      checksum  |-> Md5(fs[rel].bytes) ] >>

(***************************************************************************)
(* StorageService.                                                         *)
(***************************************************************************)
\* JSON.stringify of a metadata object: a Date becomes its ISO string;
\* JSON.parse gives the strings back as strings
JsonStringify(metadata) ==
  [metadata EXCEPT !.frontmatterDate =
      IF @ = <<>> THEN <<>> ELSE <<IsoString(@[1].v)>>]

JsonParse(json) == json

\* x || null and x || undefined for an optional number: absent when 0
OrNull(x) == IF x = <<>> THEN <<>> ELSE IF x[1] = 0 THEN <<>> ELSE x

\* the row saveDocument binds; the columns are named as the fields
DocumentRow(doc) ==
  [doc EXCEPT !.metadata = IF @ = <<>> THEN <<>> ELSE <<JsonStringify(@[1])>>,
              !.size = OrNull(@)]

rowToDocument(row) ==
  [row EXCEPT !.metadata = IF @ = <<>> THEN <<>> ELSE <<JsonParse(@[1])>>,
              !.size = OrNull(@)]

saveDocument(docs, doc) == Upsert(docs, doc.id, DocumentRow(doc))

\* getDocument(id): <<the Document>>, or <<>> for null
getDocument(docs, id) ==
  IF id \in DOMAIN docs THEN <<rowToDocument(docs[id])>> ELSE <<>>

\* getDocumentStats().lastUpdated: MAX(updated_at), or new Date() when that
\* is NULL or 0
StatsLastUpdated(docs, now) ==
  LET m == IF DOMAIN docs = {} THEN 0
           ELSE MaxOf({docs[i].updatedAt : i \in DOMAIN docs})
  IN IF m = 0 THEN now ELSE m

\* the row updateSourceStatus binds: INSERT OR REPLACE keyed by source_id
\* (variant: a row that exists keeps its last_error when none is given)
updateSourceStatus_KeepError(st, s) ==
  Upsert(st, s.sourceId,
         IF s.sourceId \in DOMAIN st /\ s.lastError.text = ""
           THEN [s EXCEPT !.lastError = st[s.sourceId].lastError]
           ELSE s)

updateSourceStatus(st, s) == Upsert(st, s.sourceId, s)

StatusRow(sid, stat, now, err, result) ==
  [ sourceId |-> sid, status |-> stat, lastRun |-> now, lastError |-> err,
    documentsFound |-> result.documentsFound,
    documentsProcessed |-> result.documentsProcessed,
    documentsSkipped |-> result.documentsSkipped ]

\* (variant: a row that exists is not replaced)
saveSource_InsertOnly(srcs, source) ==
  IF source.id \in DOMAIN srcs THEN srcs ELSE Upsert(srcs, source.id, source)

saveSource(srcs, source) == Upsert(srcs, source.id, source)

\* deleteSource(id): documents of the source, its status row, the source row
deleteSourceDocuments_NoCascade(docs, id) == docs

deleteSourceDocuments(docs, id) ==
  Without(docs, {d \in DOMAIN docs : docs[d].sourceId = id})

deleteSourceStatus(st, id) == Without(st, {id})

deleteSourceRow(srcs, id) == Without(srcs, {id})

(***************************************************************************)
(* StorageService queries with an ORDER BY.  Rows that tie on the sort key *)
(* come out in a fixed order (source id, file path).                       *)
(***************************************************************************)
\* the elements of the finite set S as a sequence ascending by key (keys differ)
RECURSIVE SeqByKey(_, _)
SeqByKey(S, key) ==
  IF S = {} THEN <<>>
  ELSE LET x == CHOOSE y \in S : \A z \in S : key[y] <= key[z]
       IN <<x>> \o SeqByKey(S \ {x}, key)

NameRank(name) ==
  CASE name = "afile" -> 1 [] name = "api" -> 2 [] name = "docs" -> 3
    [] name = "git" -> 4 [] name = "missing" -> 5 [] name = "web" -> 6
    [] OTHER -> 0

FileRank(rel) == CASE rel = P_a -> 1 [] rel = P_b -> 2 [] OTHER -> 3

\* SELECT * FROM sources ORDER BY name
getAllSources(srcs) ==
  LET key == [id \in DOMAIN srcs |-> NameRank(srcs[id].name) * 100 + id]
      ids == SeqByKey(DOMAIN srcs, key)
  IN [i \in 1..Len(ids) |-> srcs[ids[i]]]

\* SELECT * FROM documents WHERE source_id = ? ORDER BY updated_at DESC
getDocumentsBySource(docs, sourceId) ==
  LET mine == {d \in DOMAIN docs : docs[d].sourceId = sourceId}
      key == [d \in mine |-> (0 - docs[d].updatedAt) * 100 + FileRank(docs[d].sourcePath.rel)]
      ids == SeqByKey(mine, key)
  IN [i \in 1..Len(ids) |-> rowToDocument(docs[ids[i]])]

(***************************************************************************)
(* CrawlerService: filters.                                                *)
(***************************************************************************)
SomeMatch(path, patterns) ==
  \E i \in 1..Len(patterns) : matchGlob(path, patterns[i])

\* (variant: a path that matches an include pattern is accepted at once)
shouldProcessPath_IncludeWins(relativePath, filters) ==
  IF ~filters.defined THEN TRUE
  ELSE IF Len(filters.include) > 0
    THEN SomeMatch(relativePath, filters.include)
  ELSE IF Len(filters.exclude) > 0 /\ SomeMatch(relativePath, filters.exclude)
    THEN FALSE
  ELSE TRUE

\* (variant: the include patterns are not consulted)
shouldProcessPath_ExcludeOnly(relativePath, filters) ==
  IF ~filters.defined THEN TRUE
  ELSE IF Len(filters.exclude) > 0 /\ SomeMatch(relativePath, filters.exclude)
    THEN FALSE
  ELSE TRUE

shouldProcessPath(relativePath, filters) ==
  IF ~filters.defined THEN TRUE
  ELSE IF Len(filters.include) > 0 /\ ~SomeMatch(relativePath, filters.include)
    THEN FALSE
  ELSE IF Len(filters.exclude) > 0 /\ SomeMatch(relativePath, filters.exclude)
    THEN FALSE
  ELSE TRUE

\* x || d: d when x is undefined or 0, else x
OrDefault(x, d) == IF x = <<>> THEN d ELSE IF x[1] = 0 THEN d ELSE x[1]

\* filters.maxDepth || 10  and  filters.maxSize || 10 * 1024 * 1024
MaxDepthOf(filters) == OrDefault(filters.maxDepth, DefaultMaxDepth)

MaxSizeOf(filters) == OrDefault(filters.maxSize, DefaultMaxSize)

(***************************************************************************)
(* CrawlerService.crawlSource.  A Run is the record `run`:                 *)
(*   pc      "idle" (no Run yet), "dispatch" (status `crawling` written),  *)
(*           "walk" (inside crawlDirectory), "file" (inside the iteration  *)
(*           for a file, after documentsFound++; pending is what the file  *)
(*           system does for the file), "returned"                         *)
(*   source  the SourceConfig object passed to crawlSource                 *)
(*   result  the CrawlResult                                               *)
(*   stack   the directory entries still to be visited, depth first; each  *)
(*           with the currentDepth of the crawlDirectory call that read it *)
(* and, as a record of what the Run did: the entries visited, the files    *)
(* counted in documentsFound, the files passed to parseFile, the files      *)
(* saved, the files whose stored Document   *)
(* was replaced by one with another checksum, the entries counted skipped, *)
(* the files whose stat, read or parse failed, the number of entries       *)
(* rejected by filter, size or extension, the directories whose readdir    *)
(* failed, the statuses written, whether the Run repeats the previous      *)
(* Run of the same source with nothing changed in between, and the stored  *)
(* status of the source when the Run began ("" when it had none).          *)
(***************************************************************************)
EmptyResult ==
  [documentsFound |-> 0, documentsProcessed |-> 0, documentsSkipped |-> 0,
   errors |-> <<>>]

NewRun(source, repeat) ==
  [ pc |-> "dispatch", source |-> source, result |-> EmptyResult,
    previous |-> "", pending |-> "ok",
    stack |-> <<>>, visited |-> {}, found |-> {}, extracted |-> {}, saved |-> {},
    replaced |-> {},
    counted |-> {}, failed |-> {}, rejected |-> 0, dirErrors |-> 0, faults |-> 0,
    statusWrites |-> <<"crawling">>, repeat |-> repeat ]

NoSource ==
  [ id |-> 0, name |-> "", type |-> "local", url |-> "", enabled |-> FALSE,
    lastCrawled |-> NoTime, filters |-> NoFilters ]

IdleRun ==
  [NewRun(NoSource, FALSE) EXCEPT !.pc = "idle", !.statusWrites = <<>>]

NoRunInProgress == run.pc \in {"idle", "returned"}

Op(name, sid, n) == [op |-> name, sid |-> sid, n |-> n]

\* the entries of directory d as stack items read at depth
StackItems(d, depth) ==
  LET es == readdir(d) IN
  [i \in 1..Len(es) |->
     [rel |-> JoinRel(d, es[i].name), kind |-> es[i].kind, depth |-> depth]]

\* an error message: a fixed text followed by a path
Message(text, url, rel) == [text |-> text, path |-> FullPath(url, rel)]

NoError == Message("", "", <<>>)

\* (variant: the root is only required to exist)
FatalError_NoDirectoryCheck(source) ==
  CASE source.type = "git" -> Message("Git sources not yet implemented", "", <<>>)
    [] source.type = "web" -> Message("Web sources not yet implemented", "", <<>>)
    [] source.type = "api" -> Message("API sources not yet implemented", "", <<>>)
    [] source.type = "local" /\ RootKind(source.url) = "missing" ->
         Message("Cannot access path: ", source.url, <<>>)
    [] OTHER -> NoError

\* the message of the error thrown for a source that cannot be crawled;
\* NoError when the source is local and its root is a directory
FatalError(source) ==
  CASE source.type = "git" -> Message("Git sources not yet implemented", "", <<>>)
    [] source.type = "web" -> Message("Web sources not yet implemented", "", <<>>)
    [] source.type = "api" -> Message("API sources not yet implemented", "", <<>>)
    [] source.type = "local" /\ RootKind(source.url) # "dir" ->
         Message("Cannot access path: ", source.url, <<>>)
    [] OTHER -> NoError

\* what crawlDirectory does with one file entry that passed the filters
\*   "stat_error"   fs.stat throws
\*   "too_large"    stats.size > maxSize
\*   "unsupported"  canParse is false
\*   "up_to_date"   a stored Document has updatedAt >= stats.mtime
\*   "null"         parseFile returns null
\*   "processed"    parseFile returns a Document, which is saved
\* (variant: a file that has a stored Document is always up to date)
FileOutcome_SkipExisting(source, rel, io) ==
  LET existingDoc == getDocument(documents, DocId(source.id, FullPath(source.url, rel))) IN
  IF io = "io_error" THEN "stat_error"
  ELSE IF FileSize(rel) > MaxSizeOf(source.filters) THEN "too_large"
  ELSE IF ~canParse(rel) THEN "unsupported"
  ELSE IF existingDoc # <<>> THEN "up_to_date"
  ELSE IF parseFile(source.url, rel, source.id, clock, io = "extract_error") = <<>> THEN "null"
  ELSE "processed"

FileOutcome(source, rel, io) ==
  LET existingDoc == getDocument(documents, DocId(source.id, FullPath(source.url, rel))) IN
  IF io = "io_error" THEN "stat_error"
  ELSE IF FileSize(rel) > MaxSizeOf(source.filters) THEN "too_large"
  ELSE IF ~canParse(rel) THEN "unsupported"
  ELSE IF existingDoc # <<>> /\ existingDoc[1].updatedAt >= fs[rel].mtime THEN "up_to_date"
  ELSE IF parseFile(source.url, rel, source.id, clock, io = "extract_error") = <<>> THEN "null"
  ELSE "processed"

IoOutcomes == {"ok", "io_error", "extract_error"}

(***************************************************************************)
(* Tool calls.  A call returns a value or throws an error, which is the    *)
(* reply; a crawlAllEnabledSources invocation is the record `batch`:       *)
(*   pc       "idle" (none yet), "running", "returned"                     *)
(*   queue    the enabled sources still to be crawled, the first one being *)
(*            crawled when current is its id                               *)
(*   results  the Map of source id -> CrawlResult                          *)
(*   enabled  the ids of the sources the invocation selected               *)
(***************************************************************************)
ReplyError(text, sid, did) == [text |-> text, sid |-> sid, did |-> did]

NoReplyError == ReplyError("", 0, <<>>)

\* new Error(`Source not found: ${id}`), new Error(`Document not found: ${id}`)
SourceNotFound(id) == ReplyError("Source not found: ", id, <<>>)

DocumentNotFound(id) == ReplyError("Document not found: ", 0, id)

OkReply(results) == [ok |-> TRUE, error |-> NoReplyError, results |-> results]

ErrorReply(error) == [ok |-> FALSE, error |-> error, results |-> <<>>]

IdleBatch ==
  [pc |-> "idle", queue |-> <<>>, current |-> 0, results |-> <<>>, enabled |-> {}]

\* no tool call is in progress
Idle == NoRunInProgress /\ batch.pc # "running"

\* the operation on a Document: like Op, with the document id
DocOp(name, did, n) == [op |-> name, sid |-> 0, n |-> n, did |-> did]

(***************************************************************************)
(* Initial state: an empty database, the index built at start-up           *)
(* (SearchService.initialize), no Run.                                     *)
(***************************************************************************)
Init ==
  /\ clock = 1
  /\ fs = [f \in Files |-> IF f = P_b THEN [bytes |-> "fm", mtime |-> 2]
                                      ELSE [bytes |-> "v1", mtime |-> 1]]
  /\ sources = <<>>
  /\ documents = <<>>
  /\ status = <<>>
  /\ nextId = 0
  /\ run = IdleRun
  /\ parked = IdleRun
  /\ idxDocs = <<>>
  /\ fuseRecords = <<>>
  /\ lastIndexUpdate = 1
  /\ searchResult = <<>>
  /\ lastOp = Op("init", 0, 0)
  /\ crawledMtime = <<>>
  /\ quiet = FALSE
  /\ batch = IdleBatch
  /\ reply = OkReply(<<>>)

(***************************************************************************)
(* Environment: time passes; a file is rewritten.                          *)
(***************************************************************************)
Tick ==
  /\ clock < MaxClock
  /\ clock' = clock + 1
  /\ lastOp' = Op("Tick", 0, 0)
  /\ UNCHANGED <<fs, sources, documents, status, nextId, run, parked, idxDocs,
                 fuseRecords, lastIndexUpdate, searchResult, crawledMtime, quiet,
                 batch, reply>>

WriteFile(f, bytes, mtime) ==
  /\ Idle
  /\ f \in Writable
  /\ fs[f] # [bytes |-> bytes, mtime |-> mtime]
  /\ fs' = [fs EXCEPT ![f] = [bytes |-> bytes, mtime |-> mtime]]
  /\ quiet' = FALSE
  /\ lastOp' = Op("WriteFile", 0, 0)
  /\ UNCHANGED <<parked, clock, sources, documents, status, nextId, run, idxDocs, fuseRecords,
                 lastIndexUpdate, searchResult, crawledMtime, batch, reply>>

(***************************************************************************)
(* ToolsHandler.handleAddSource / handleGetSource / handleUpdateSource /   *)
(* handleDeleteSource.                                                     *)
(***************************************************************************)
\* getSource(id): <<the SourceConfig>>, or <<>> for null
getSource(srcs, id) == IF id \in DOMAIN srcs THEN <<srcs[id]>> ELSE <<>>

\* a tool call that throws before it has written anything
Reject(op, error) ==
  /\ reply' = ErrorReply(error)
  /\ lastOp' = op
  /\ UNCHANGED <<parked, clock, fs, sources, documents, status, nextId, run, idxDocs, fuseRecords,
                 lastIndexUpdate, searchResult, crawledMtime, quiet, batch>>

AddSource(args) ==
  /\ Idle
  /\ nextId + 1 \in SourceIds
  /\ LET id == nextId + 1
         source == [ id |-> id, name |-> args.name, type |-> args.type,
                     url |-> args.url, enabled |-> TRUE,
                     lastCrawled |-> NoTime, filters |-> args.filters ]
     IN /\ sources' = saveSource(sources, source)
        /\ nextId' = id
        /\ lastOp' = Op("AddSource", id, 0)
  /\ quiet' = FALSE
  /\ reply' = OkReply(<<>>)
  /\ UNCHANGED <<parked, clock, fs, documents, status, run, idxDocs, fuseRecords,
                 lastIndexUpdate, searchResult, crawledMtime, batch>>

deleteSource(id) ==
  /\ documents' = deleteSourceDocuments(documents, id)
  /\ status' = deleteSourceStatus(status, id)
  /\ sources' = deleteSourceRow(sources, id)

handleDeleteSource(id) ==
  /\ IF getSource(sources, id) = <<>>
       THEN Reject(Op("DeleteSource", id, 0), SourceNotFound(id))
     ELSE
       /\ deleteSource(id)
       /\ crawledMtime' = Without(crawledMtime, (DOMAIN documents) \ (DOMAIN documents'))
       /\ quiet' = FALSE
       /\ reply' = OkReply(<<>>)
       /\ lastOp' = Op("DeleteSource", id,
                       Cardinality({d \in DOMAIN documents : documents[d].sourceId = id}))
       /\ UNCHANGED <<parked, clock, fs, nextId, run, idxDocs, fuseRecords, lastIndexUpdate,
                      searchResult, batch>>

\* delete_source called while no other tool call is in progress
DeleteSource(id) == Idle /\ handleDeleteSource(id)

\* no crawlAllEnabledSources is in progress and a crawlSource invocation
\* waits for the file system: a request that arrives now is handled first
RunSuspended == batch.pc # "running" /\ run.pc \in {"dispatch", "walk"}

\* delete_source handled while a Run waits for the file system
DeleteSourceDuringRun(id) == RunSuspended /\ handleDeleteSource(id)

\* the arguments of update_source other than the id: name ("" when not
\* given), enabled and filters (optional)
UpdatePatches ==
  {[name |-> "", enabled |-> <<e>>, filters |-> <<>>] : e \in BOOLEAN}

\* { ...source.filters, ...parsed.filters }
MergeFilters(old, new) ==
  [ defined  |-> TRUE,
    include  |-> IF new.include # <<>> THEN new.include ELSE old.include,
    exclude  |-> IF new.exclude # <<>> THEN new.exclude ELSE old.exclude,
    maxDepth |-> IF new.maxDepth # <<>> THEN new.maxDepth ELSE old.maxDepth,
    maxSize  |-> IF new.maxSize # <<>> THEN new.maxSize ELSE old.maxSize ]

handleUpdateSource(id, patch) ==
  /\ IF getSource(sources, id) = <<>>
       THEN Reject(Op("UpdateSource", id, 0), SourceNotFound(id))
     ELSE
       LET source == getSource(sources, id)[1]
           updatedSource ==
             [source EXCEPT
                !.name = IF patch.name # "" THEN patch.name ELSE @,
                !.enabled = IF patch.enabled # <<>> THEN patch.enabled[1] ELSE @,
                !.filters = IF patch.filters # <<>>
                              THEN MergeFilters(@, patch.filters[1]) ELSE @]
       IN /\ sources' = saveSource(sources, updatedSource)
          /\ quiet' = FALSE
          /\ reply' = OkReply(<<>>)
          /\ lastOp' = Op("UpdateSource", id, 0)
          /\ UNCHANGED <<parked, clock, fs, documents, status, nextId, run, idxDocs, fuseRecords,
                         lastIndexUpdate, searchResult, crawledMtime, batch>>

\* update_source called while no other tool call is in progress
UpdateSource(id, patch) == Idle /\ handleUpdateSource(id, patch)

\* update_source handled while a Run waits for the file system
UpdateSourceDuringRun(id, patch) == RunSuspended /\ handleUpdateSource(id, patch)

GetSource(id) ==
  /\ Idle
  /\ IF getSource(sources, id) = <<>>
       THEN Reject(Op("GetSource", id, 0), SourceNotFound(id))
     ELSE
       /\ reply' = OkReply(getDocumentsBySource(documents, id))
       /\ lastOp' = Op("GetSource", id, 0)
       /\ UNCHANGED <<parked, clock, fs, sources, documents, status, nextId, run,
                      idxDocs, fuseRecords, lastIndexUpdate, searchResult, crawledMtime,
                      quiet, batch>>

(***************************************************************************)
(* ToolsHandler.handleCrawlSource -> CrawlerService.crawlSource.           *)
(***************************************************************************)
\* (variant: the CrawlResult of the previous Run is carried over)
crawlSourceBegin_KeepResult(source) ==
  /\ run' = [NewRun(source, FALSE) EXCEPT !.result = run.result]
  /\ status' = updateSourceStatus(status,
                  StatusRow(source.id, "crawling", clock, NoError, EmptyResult))
  /\ quiet' = TRUE

\* crawlSource(source) up to its first status write
crawlSourceBegin(source) ==
  /\ LET repeat == /\ quiet
                   /\ run.pc = "returned"
                   /\ run.source.id = source.id
                   /\ run.statusWrites = <<"crawling", "success">>
                   /\ run.failed = {}
                   /\ run.dirErrors = 0
     IN run' = [NewRun(source, repeat) EXCEPT
                  !.previous = IF source.id \in DOMAIN status
                                 THEN status[source.id].status ELSE ""]
  /\ status' = updateSourceStatus(status,
                  StatusRow(source.id, "crawling", clock, NoError, EmptyResult))
  /\ quiet' = TRUE

\* getSource(id), then crawlSource(source) up to its first status write
CrawlSource(id) ==
  /\ Idle
  /\ IF getSource(sources, id) = <<>>
       THEN Reject(Op("CrawlSource", id, 0), SourceNotFound(id))
     ELSE
       /\ crawlSourceBegin(getSource(sources, id)[1])
       /\ lastOp' = Op("CrawlSource", id, 0)
       /\ UNCHANGED <<parked, clock, fs, sources, documents, nextId, idxDocs, fuseRecords,
                      lastIndexUpdate, searchResult, crawledMtime, batch, reply>>

\* source_status.source_id REFERENCES sources (id): a status row written for
\* a source that has no row violates the foreign key.  Whether the statement
\* then throws depends on the database enforcing foreign keys (fk), which
\* the code does not configure.
ForeignKeyViolated(sid, fk) == fk /\ sid \notin DOMAIN sources

ForeignKeyFailed(sid) == ReplyError("FOREIGN KEY constraint failed", sid, <<>>)

\* the step of a Run that ends it wrote no status: updateSourceStatus threw
\* in the catch block too and crawlSource rejected
RunThrew == run'.pc = "returned" /\ run'.statusWrites = run.statusWrites

\* the catch block of crawlSource: the error is pushed, status `error` is
\* written and the result is returned
CrawlSourceCatch(errorMessage) ==
  LET result == [run.result EXCEPT !.errors = Append(@, errorMessage)] IN
  \E fk \in BOOLEAN :
    IF ForeignKeyViolated(run.source.id, fk)
      THEN /\ run' = [run EXCEPT !.pc = "returned", !.result = result]
           /\ UNCHANGED status
    ELSE
      /\ run' = [run EXCEPT !.pc = "returned", !.result = result,
                            !.statusWrites = Append(@, "error")]
      /\ status' = updateSourceStatus(status,
                      StatusRow(run.source.id, "error", clock, errorMessage, result))

\* the switch on source.type; for a local source crawlLocalFiles up to the
\* readdir of the root directory (io: whether that readdir throws)
CrawlLocalFiles(io) ==
  /\ run.pc = "dispatch"
  /\ io \in {"ok", "io_error"}
  /\ io # "ok" => run.faults < MaxFaults
  /\ IF FatalError(run.source) # NoError
       THEN CrawlSourceCatch(FatalError(run.source))
     ELSE /\ run' =
               IF 0 >= MaxDepthOf(run.source.filters)
                 THEN [run EXCEPT !.pc = "walk"]
               ELSE IF io = "io_error"
                 THEN [run EXCEPT !.pc = "walk",
                         !.dirErrors = @ + 1, !.faults = @ + 1,
                         !.result.errors = Append(@,
                            Message("Error reading directory ", run.source.url, RootRel))]
               ELSE [run EXCEPT !.pc = "walk", !.stack = StackItems(RootRel, 0)]
          /\ UNCHANGED status
  /\ reply' = IF FatalError(run.source) # NoError /\ batch.pc # "running"
                THEN IF RunThrew THEN ErrorReply(ForeignKeyFailed(run.source.id))
                                 ELSE OkReply(<<>>)
                ELSE reply
  /\ lastOp' = Op("CrawlLocalFiles", run.source.id, 0)
  /\ UNCHANGED <<parked, clock, fs, sources, documents, nextId, idxDocs, fuseRecords,
                 lastIndexUpdate, searchResult, crawledMtime, quiet, batch>>

\* (variant: the entry is passed over without being counted)
countSkipped_NotCounted(r, rel) == [r EXCEPT !.counted = @ \cup {rel}]

\* result.documentsSkipped++; continue
countSkipped(r, rel) ==
  [r EXCEPT !.result.documentsSkipped = @ + 1, !.counted = @ \cup {rel}]

\* crawlDirectory: one iteration of the loop over the entries of a directory,
\* continued from the state cur of the invocation
\* (io: what the file system does for this entry)
crawlEntry(cur, io) ==
  LET e == Head(cur.stack)
      rest == Tail(cur.stack)
      src == cur.source
      seen == [cur EXCEPT !.stack = rest, !.visited = @ \cup {e.rel}]
      skip(r) == countSkipped(r, e.rel)
      id == DocId(src.id, FullPath(src.url, e.rel))
      outcome == FileOutcome(src, e.rel, io)
  IN
     IF ~shouldProcessPath(e.rel, src.filters) THEN
       /\ run' = [skip(seen) EXCEPT !.rejected = @ + 1]
       /\ UNCHANGED <<documents, crawledMtime>>
     ELSE IF e.kind = "dir" THEN
       /\ run' =
            IF e.depth + 1 >= MaxDepthOf(src.filters) THEN seen
            ELSE IF io = "io_error"
              THEN [seen EXCEPT !.dirErrors = @ + 1, !.faults = @ + 1,
                      !.result.errors = Append(@,
                         Message("Error reading directory ", src.url, e.rel))]
            ELSE [seen EXCEPT !.stack = StackItems(e.rel, e.depth + 1) \o rest]
       /\ UNCHANGED <<documents, crawledMtime>>
     ELSE
       CASE outcome = "stat_error" ->
              /\ run' = [skip(seen) EXCEPT !.failed = @ \cup {e.rel},
                           !.faults = @ + 1,
                           !.result.errors = Append(@,
                              Message("Error processing file ", src.url, e.rel))]
              /\ UNCHANGED <<documents, crawledMtime>>
         [] outcome \in {"too_large", "unsupported"} ->
              /\ run' = [skip(seen) EXCEPT !.rejected = @ + 1]
              /\ UNCHANGED <<documents, crawledMtime>>
         [] outcome = "up_to_date" ->
              /\ run' = [skip(seen) EXCEPT !.result.documentsFound = @ + 1,
                                           !.found = @ \cup {e.rel}]
              /\ UNCHANGED <<documents, crawledMtime>>
         [] outcome = "null" ->
              /\ run' = [skip(seen) EXCEPT !.result.documentsFound = @ + 1,
                                           !.found = @ \cup {e.rel},
                                           !.extracted = @ \cup {e.rel},
                                           !.failed = @ \cup {e.rel},
                                           !.faults = @ + 1]
              /\ UNCHANGED <<documents, crawledMtime>>
         [] OTHER ->
              /\ run' = [seen EXCEPT !.result.documentsFound = @ + 1,
                                     !.found = @ \cup {e.rel},
                                     !.result.documentsProcessed = @ + 1,
                                     !.extracted = @ \cup {e.rel},
                                     !.saved = @ \cup {e.rel},
                                     !.replaced = @ \cup
                                        IF /\ id \in DOMAIN documents
                                           /\ documents[id].checksum # Md5(fs[e.rel].bytes)
                                          THEN {e.rel} ELSE {}]
              /\ documents' = saveDocument(documents,
                    parseFile(src.url, e.rel, src.id, clock, FALSE)[1])
              /\ crawledMtime' = Upsert(crawledMtime, id, fs[e.rel].mtime)

CrawlEntry(io) ==
  /\ run.pc = "walk"
  /\ run.stack # <<>>
  /\ io # "ok" => run.faults < MaxFaults
  /\ crawlEntry(run, io)
  /\ lastOp' = Op("CrawlEntry", run.source.id, 0)
  /\ UNCHANGED <<parked, clock, fs, sources, status, nextId, idxDocs, fuseRecords,
                 lastIndexUpdate, searchResult, quiet, batch, reply>>

\* the same iteration for a file, up to result.documentsFound++: the file
\* passed the filter, fs.stat, the size check and canParse, and the
\* invocation waits for getDocument and parseFile
CrawlFileFound(io) ==
  /\ run.pc = "walk"
  /\ run.stack # <<>>
  /\ io # "ok" => run.faults < MaxFaults
  /\ LET e == Head(run.stack) IN
     /\ shouldProcessPath(e.rel, run.source.filters)
     /\ e.kind = "file"
     /\ FileOutcome(run.source, e.rel, io) \in {"up_to_date", "null", "processed"}
     /\ run' = [run EXCEPT !.pc = "file", !.pending = io,
                           !.result.documentsFound = @ + 1,
                           !.found = @ \cup {e.rel}]
  /\ lastOp' = Op("CrawlFileFound", run.source.id, 0)
  /\ UNCHANGED <<parked, clock, fs, sources, documents, status, nextId, idxDocs,
                 fuseRecords, lastIndexUpdate, searchResult, crawledMtime, quiet,
                 batch, reply>>

\* the rest of that iteration: the file is skipped as up to date, or parsed
\* and stored, and counted
CrawlFileStore ==
  /\ run.pc = "file"
  /\ crawlEntry([run EXCEPT !.pc = "walk", !.pending = "ok",
                            !.result.documentsFound = @ - 1,
                            !.found = @ \ {Head(run.stack).rel}],
                run.pending)
  /\ lastOp' = Op("CrawlEntry", run.source.id, 0)
  /\ UNCHANGED <<parked, clock, fs, sources, status, nextId, idxDocs, fuseRecords,
                 lastIndexUpdate, searchResult, quiet, batch, reply>>

\* (variant: collected errors turn the terminal status into `error`)
CrawlSourceFinish_ErrorsFail ==
  /\ run.pc = "walk"
  /\ run.stack = <<>>
  /\ LET stat == IF run.result.errors = <<>> THEN "success" ELSE "error" IN
     /\ status' = updateSourceStatus(status,
                     StatusRow(run.source.id, stat, clock, NoError, run.result))
     /\ run' = [run EXCEPT !.pc = "returned",
                           !.source.lastCrawled = clock,
                           !.statusWrites = Append(@, stat)]
  /\ sources' = saveSource(sources, [run.source EXCEPT !.lastCrawled = clock])
  /\ reply' = IF batch.pc # "running" THEN OkReply(<<>>) ELSE reply
  /\ lastOp' = Op("CrawlSourceFinish", run.source.id, 0)
  /\ UNCHANGED <<parked, clock, fs, documents, nextId, idxDocs, fuseRecords, lastIndexUpdate,
                 searchResult, crawledMtime, quiet, batch>>

\* (variant: crawlSource returns without writing a terminal status)
CrawlSourceFinish_NoStatus ==
  /\ run.pc = "walk"
  /\ run.stack = <<>>
  /\ run' = [run EXCEPT !.pc = "returned"]
  /\ reply' = IF batch.pc # "running" THEN OkReply(<<>>) ELSE reply
  /\ lastOp' = Op("CrawlSourceFinish", run.source.id, 0)
  /\ UNCHANGED <<parked, clock, fs, sources, documents, status, nextId, idxDocs,
                 fuseRecords, lastIndexUpdate, searchResult, crawledMtime, quiet,
                 batch>>

\* crawlSource after crawlLocalFiles has returned: status `success`, then
\* source.lastCrawled = new Date() and saveSource(source)
\* (when the write of `success` violates the foreign key, so does the write
\* of `error` in the catch block, and crawlSource rejects)
CrawlSourceFinish ==
  /\ run.pc = "walk"
  /\ run.stack = <<>>
  /\ \E fk \in BOOLEAN :
       IF ForeignKeyViolated(run.source.id, fk)
         THEN /\ run' = [run EXCEPT !.pc = "returned",
                           !.result.errors =
                              Append(@, Message("FOREIGN KEY constraint failed",
                                                "", <<>>))]
              /\ UNCHANGED <<status, sources>>
       ELSE
         /\ status' = updateSourceStatus(status,
                         StatusRow(run.source.id, "success", clock, NoError, run.result))
         /\ sources' = saveSource(sources, [run.source EXCEPT !.lastCrawled = clock])
         /\ run' = [run EXCEPT !.pc = "returned",
                               !.source.lastCrawled = clock,
                               !.statusWrites = Append(@, "success")]
  /\ reply' = IF batch.pc # "running"
                THEN IF RunThrew THEN ErrorReply(ForeignKeyFailed(run.source.id))
                                 ELSE OkReply(<<>>)
                ELSE reply
  /\ lastOp' = Op("CrawlSourceFinish", run.source.id, 0)
  /\ UNCHANGED <<parked, clock, fs, documents, nextId, idxDocs, fuseRecords, lastIndexUpdate,
                 searchResult, crawledMtime, quiet, batch>>

(***************************************************************************)
(* Two crawl_source requests in progress at once.  The server starts the   *)
(* handler of a request when it arrives; a crawlSource invocation that     *)
(* waits for the file system leaves the event loop to the others.  `run`   *)
(* is the invocation that proceeds, `parked` the one that waits.           *)
(***************************************************************************)
\* crawl_source handled while a Run waits for the file system: the new
\* invocation writes status `crawling` and proceeds
CrawlSourceDuringRun(id) ==
  /\ RunSuspended
  /\ parked.pc \in {"idle", "returned"}
  /\ IF getSource(sources, id) = <<>>
       THEN Reject(Op("CrawlSource", id, 0), SourceNotFound(id))
     ELSE
       /\ parked' = run
       /\ crawlSourceBegin(getSource(sources, id)[1])
       /\ lastOp' = Op("CrawlSource", id, 0)
       /\ UNCHANGED <<clock, fs, sources, documents, nextId, idxDocs, fuseRecords,
                      lastIndexUpdate, searchResult, crawledMtime, batch, reply>>

\* the file-system call of the waiting invocation completes: it proceeds
\* and the other one waits (or has returned)
Resume ==
  /\ batch.pc # "running"
  /\ parked.pc \in {"dispatch", "walk"}
  /\ run' = parked
  /\ parked' = run
  /\ lastOp' = Op("Resume", parked.source.id, 0)
  /\ UNCHANGED <<clock, fs, sources, documents, status, nextId, idxDocs,
                 fuseRecords, lastIndexUpdate, searchResult, crawledMtime, quiet,
                 batch, reply>>

(***************************************************************************)
(* StorageService.saveDocument called with any Document, and               *)
(* ToolsHandler.handleGetDocument.                                         *)
(***************************************************************************)
SampleIds == {DocId(s, FullPath("docs", P_a)) : s \in SourceIds}

SampleMetadata ==
  { <<>>,
    <<[frontmatterDate |-> <<>>, fileName |-> "a.md", extension |-> ".md"]>>,
    <<[frontmatterDate |-> <<JsDate(1)>>, fileName |-> "a.md", extension |-> ".md"]>> }

SampleDocuments ==
  { [ id |-> DocId(s, FullPath("docs", P_a)), title |-> "a", content |-> "v1",
      type |-> "markdown", sourceId |-> s, sourcePath |-> FullPath("docs", P_a),
      metadata |-> m, tags |-> t, createdAt |-> 1, updatedAt |-> 1,
      size |-> z, checksum |-> c ] :
    s \in SourceIds, m \in SampleMetadata, t \in {<<>>, << <<>> >>, << <<"t1">> >>},
    z \in {<<>>, <<0>>, <<3>>}, c \in {<<>>, Md5("v1")} }

SaveDocument(doc) ==
  /\ Idle
  /\ documents' = saveDocument(documents, doc)
  /\ quiet' = FALSE
  /\ reply' = OkReply(<<doc>>)
  /\ lastOp' = DocOp("SaveDocument", doc.id, 0)
  /\ UNCHANGED <<parked, clock, fs, sources, status, nextId, run, idxDocs, fuseRecords,
                 lastIndexUpdate, searchResult, crawledMtime, batch>>

GetDocument(id) ==
  /\ Idle
  /\ IF getDocument(documents, id) = <<>>
       THEN Reject(DocOp("GetDocument", id, 0), DocumentNotFound(id))
     ELSE
       /\ reply' = OkReply(getDocument(documents, id))
       /\ lastOp' = DocOp("GetDocument", id, 0)
       /\ UNCHANGED <<parked, clock, fs, sources, documents, status, nextId, run,
                      idxDocs, fuseRecords, lastIndexUpdate, searchResult, crawledMtime,
                      quiet, batch>>

(***************************************************************************)
(* ToolsHandler.handleCrawlAllSources -> crawlAllEnabledSources.           *)
(***************************************************************************)
\* getAllSources(), filter(s => s.enabled), new Map(); the call returns at
\* once when no source is enabled
CrawlAllSources ==
  /\ Idle
  /\ LET enabledSources == SelectSeq(getAllSources(sources), LAMBDA s : s.enabled)
     IN /\ batch' = [ pc |-> IF enabledSources = <<>> THEN "returned" ELSE "running",
                      queue |-> enabledSources, current |-> 0, results |-> <<>>,
                      enabled |-> {enabledSources[i].id : i \in 1..Len(enabledSources)} ]
        /\ reply' = IF enabledSources = <<>> THEN OkReply(<<>>) ELSE reply
        /\ lastOp' = Op("CrawlAllSources", 0, Len(enabledSources))
  /\ UNCHANGED <<parked, clock, fs, sources, documents, status, nextId, run, idxDocs, fuseRecords,
                 lastIndexUpdate, searchResult, crawledMtime, quiet>>

\* one iteration of the loop: crawlSource(source) up to its first status write
CrawlAllRun ==
  /\ batch.pc = "running"
  /\ batch.current = 0
  /\ NoRunInProgress
  /\ crawlSourceBegin(Head(batch.queue))
  /\ batch' = [batch EXCEPT !.current = Head(batch.queue).id]
  /\ lastOp' = Op("CrawlAllRun", Head(batch.queue).id, 0)
  /\ UNCHANGED <<parked, clock, fs, sources, documents, nextId, idxDocs, fuseRecords,
                 lastIndexUpdate, searchResult, crawledMtime, reply>>

\* (variant: the loop ends at the first source whose Run reports an error)
CrawlAllCollect_FailFast ==
  /\ batch.pc = "running"
  /\ batch.current # 0
  /\ run.pc = "returned"
  /\ LET rest == IF run.result.errors # <<>> THEN <<>> ELSE Tail(batch.queue) IN
     /\ batch' = [batch EXCEPT !.results = Upsert(@, batch.current, run.result),
                               !.queue = rest, !.current = 0,
                               !.pc = IF rest = <<>> THEN "returned" ELSE "running"]
     /\ reply' = IF rest = <<>> THEN OkReply(<<>>) ELSE reply
     /\ lastOp' = Op("CrawlAllCollect", batch.current, Len(rest))
  /\ UNCHANGED <<parked, clock, fs, sources, documents, status, nextId, run, idxDocs, fuseRecords,
                 lastIndexUpdate, searchResult, crawledMtime, quiet>>

\* crawlSource has returned: results.set(source.id, result); after the last
\* source the Map is returned
CrawlAllCollect ==
  /\ batch.pc = "running"
  /\ batch.current # 0
  /\ run.pc = "returned"
  /\ LET rest == Tail(batch.queue) IN
     /\ batch' = [batch EXCEPT !.results = Upsert(@, batch.current, run.result),
                               !.queue = rest, !.current = 0,
                               !.pc = IF rest = <<>> THEN "returned" ELSE "running"]
     /\ reply' = IF rest = <<>> THEN OkReply(<<>>) ELSE reply
     /\ lastOp' = Op("CrawlAllCollect", batch.current, Len(rest))
  /\ UNCHANGED <<parked, clock, fs, sources, documents, status, nextId, run, idxDocs, fuseRecords,
                 lastIndexUpdate, searchResult, crawledMtime, quiet>>

(***************************************************************************)
(* SearchService.                                                          *)
(***************************************************************************)
RECURSIVE Flatten(_)
Flatten(ss) == IF ss = <<>> THEN <<>> ELSE Head(ss) \o Flatten(Tail(ss))

\* rebuildIndex: the documents of every source row, source by source
IndexedDocuments(srcs, docs) ==
  LET all == getAllSources(srcs) IN
  Flatten([i \in 1..Len(all) |-> getDocumentsBySource(docs, all[i].id)])

\* the staleness test of search()
IndexIsStale == StatsLastUpdated(documents, clock) > lastIndexUpdate

(***************************************************************************)
(* The match engine (Fuse.js, a library outside the repository).  Scores   *)
(* are in hundredths: 0 is an exact match, FuseThreshold the worst score   *)
(* that still matches.  The engine compares the query with the keys title, *)
(* content, tags and metadata.fileName without regard to case, drops       *)
(* matches shorter than minMatchCharLength, returns the matching items     *)
(* best score first (index order among equal scores) and cuts the list to  *)
(* limit when limit > -1.                                                  *)
(***************************************************************************)
FuseThreshold == 30
MinMatchCharLength == 2
NoMatch == 100

Fold(str) == IF str = "B.MD" THEN "b.md" ELSE str

\* the score of one key: 0 when the key is the query, 25 when one of four
\* characters differs
KeyScore(text, query) ==
  IF Fold(text) = Fold(query) THEN 0
  ELSE IF {Fold(text), Fold(query)} = {"a.md", "b.md"} THEN 25
  ELSE NoMatch

MinOf(S) == CHOOSE m \in S : \A x \in S : m <= x

FuseScore(doc, query) ==
  IF Len(query) < MinMatchCharLength THEN NoMatch
  ELSE MinOf({KeyScore(doc.title, query), KeyScore(doc.content, query)}
             \cup (IF doc.tags = <<>> THEN {}
                   ELSE {KeyScore(doc.tags[1][i], query) : i \in DOMAIN doc.tags[1]})
             \cup (IF doc.metadata = <<>> THEN {}
                   ELSE {KeyScore(doc.metadata[1].fileName, query)}))

\* new Fuse(docs, options): one record per position of docs, holding the
\* values of the keys of the document that is at that position when the
\* structure is built; the structure keeps the array itself, not a copy
FuseRecords(docs) ==
  [i \in DOMAIN docs |->
     [title |-> docs[i].title, content |-> docs[i].content,
      tags |-> docs[i].tags, metadata |-> docs[i].metadata]]

\* SearchService.fuse with the array it refers to
Fuse == [records |-> fuseRecords, docs |-> idxDocs]

\* fuse.search(query, {limit}): the records are matched, and the item of a
\* result is the element that is at the record's position in the array
FuseSearch(index, query, limit) ==
  LET hits == {i \in DOMAIN index.records :
                 FuseScore(index.records[i], query) <= FuseThreshold}
      key == [i \in hits |-> FuseScore(index.records[i], query) * 100 + i]
      order == SeqByKey(hits, key)
      all == [k \in 1..Len(order) |->
                [item |-> index.docs[order[k]],
                 score |-> FuseScore(index.records[order[k]], query)]]
  IN IF limit > -1 THEN SubSeq(all, 1, Min(limit, Len(all))) ELSE all

\* Array.prototype.slice(0, end): a negative end counts from the end
Slice0(s, end) ==
  LET e == IF end < 0 THEN (IF Len(s) + end < 0 THEN 0 ELSE Len(s) + end)
           ELSE Min(end, Len(s))
  IN SubSeq(s, 1, e)

\* SearchOptions: limit, and the optional lists sourceIds, types and tags
\* (<<>> when not given, <<the set of its elements>> when given)
SearchOptions(limit, sourceIds, types, tags) ==
  [limit |-> limit, sourceIds |-> sourceIds, types |-> types, tags |-> tags]

Given(list) == IF list = <<>> THEN FALSE ELSE list[1] # {}

\* search(query, options) on the index, after the staleness test
search(index, query, options) ==
  IF query = "" THEN <<>>
  ELSE LET fuseResults == FuseSearch(index, query, options.limit * 2)
           BySource(r) == r.item.sourceId \in options.sourceIds[1]
           ByType(r) == r.item.type \in options.types[1]
           ByTags(r) == /\ r.item.tags # <<>>
                        /\ \E i \in DOMAIN r.item.tags[1] :
                              r.item.tags[1][i] \in options.tags[1]
           f1 == IF Given(options.sourceIds) THEN SelectSeq(fuseResults, BySource)
                 ELSE fuseResults
           f2 == IF Given(options.types) THEN SelectSeq(f1, ByType) ELSE f1
           f3 == IF Given(options.tags) THEN SelectSeq(f2, ByTags) ELSE f2
           top == Slice0(f3, options.limit)
       IN [i \in 1..Len(top) |->
             [document |-> top[i].item, score |-> 100 - top[i].score]]

Queries == {"", "v1", "v2", "t1", "B.MD"}
Limits == {1, 50}
SearchLimits == {-1, 1, 2}

NoLists == SearchOptions(50, <<>>, <<>>, <<>>)

\* the calls of search: every limit without lists, and each list given
SearchCalls ==
  {[query |-> "v1", options |-> [NoLists EXCEPT !.limit = n]] : n \in SearchLimits}
  \cup {[query |-> "v1", options |-> [NoLists EXCEPT !.limit = n, !.sourceIds = << {2} >>]] :
          n \in SearchLimits \ {-1}}
  \cup {[query |-> q, options |-> [NoLists EXCEPT !.limit = 2, !.sourceIds = << {} >>]] :
          q \in {"", "v2"}}
  \cup {[query |-> "B.MD", options |-> o] :
          o \in {NoLists, [NoLists EXCEPT !.limit = 2, !.types = << {"markdown"} >>,
                                         !.tags = << {"t1", "t2"} >>]}}

SearchOp(name, did, query, options) ==
  [op |-> name, sid |-> 0, n |-> options.limit, did |-> did,
   query |-> query, options |-> options]

\* handleSearchDocs -> search(query, options)
Search(query, options) ==
  /\ Idle
  /\ IF IndexIsStale
       THEN /\ idxDocs' = IndexedDocuments(sources, documents)
            /\ fuseRecords' = FuseRecords(idxDocs')
            /\ lastIndexUpdate' = clock
       ELSE UNCHANGED <<idxDocs, fuseRecords, lastIndexUpdate>>
  /\ searchResult' = search(Fuse', query, options)
  /\ reply' = OkReply(<<>>)
  /\ lastOp' = SearchOp("Search", <<>>, query, options)
  /\ UNCHANGED <<parked, clock, fs, sources, documents, status, nextId, run,
                 crawledMtime, quiet, batch>>

\* this.documents.sort((a, b) => b.updatedAt - a.updatedAt): the array is
\* sorted in place, most recent first, equal dates keeping their order
SortRecent(docs) ==
  LET key == [i \in DOMAIN docs |-> (0 - docs[i].updatedAt) * 100 + i]
      order == SeqByKey(DOMAIN docs, key)
  IN [k \in 1..Len(order) |-> docs[order[k]]]

\* handleGetRecentDocs -> getRecentDocuments(limit): the index is rebuilt,
\* then its array is sorted and the first limit elements are returned
RecentDocuments(limit) ==
  /\ Idle
  /\ fuseRecords' = FuseRecords(IndexedDocuments(sources, documents))
  /\ idxDocs' = SortRecent(IndexedDocuments(sources, documents))
  /\ lastIndexUpdate' = clock
  /\ reply' = OkReply(Slice0(idxDocs', limit))
  /\ lastOp' = DocOp("RecentDocuments", <<>>, limit)
  /\ UNCHANGED <<parked, clock, fs, sources, documents, status, nextId, run,
                 searchResult, crawledMtime, quiet, batch>>

\* [document.title, ...(document.tags || [])].join(' ')
RECURSIVE JoinWords(_)
JoinWords(words) ==
  IF Len(words) = 1 THEN words[1]
  ELSE words[1] \o " " \o JoinWords(Tail(words))

SimilarQuery(document) ==
  JoinWords(<<document.title>> \o (IF document.tags = <<>> THEN <<>> ELSE document.tags[1]))

\* getSimilarDocuments without the removal of the original document
SimilarDocuments_KeepItself(id, limit) ==
  /\ Idle
  /\ LET document == getDocument(documents, id)
         NotItself(r) == TRUE
     IN IF document = <<>>
          THEN /\ searchResult' = <<>>
               /\ lastOp' = SearchOp("SimilarDocuments", id, "", [NoLists EXCEPT !.limit = limit])
               /\ UNCHANGED <<idxDocs, fuseRecords, lastIndexUpdate>>
        ELSE
          /\ IF IndexIsStale
               THEN /\ idxDocs' = IndexedDocuments(sources, documents)
                    /\ fuseRecords' = FuseRecords(idxDocs')
                    /\ lastIndexUpdate' = clock
               ELSE UNCHANGED <<idxDocs, fuseRecords, lastIndexUpdate>>
          /\ searchResult' =
               SelectSeq(search(Fuse', SimilarQuery(document[1]),
                                [NoLists EXCEPT !.limit = limit + 1]),
                         NotItself)
          /\ lastOp' = SearchOp("SimilarDocuments", id, SimilarQuery(document[1]),
                                [NoLists EXCEPT !.limit = limit])
  /\ reply' = OkReply(<<>>)
  /\ UNCHANGED <<parked, clock, fs, sources, documents, status, nextId, run,
                 crawledMtime, quiet, batch>>

\* handleGetSimilarDocs -> getSimilarDocuments(documentId, limit)
SimilarDocuments(id, limit) ==
  /\ Idle
  /\ LET document == getDocument(documents, id)
         NotItself(r) == r.document.id # id
     IN IF document = <<>>
          THEN /\ searchResult' = <<>>
               /\ lastOp' = SearchOp("SimilarDocuments", id, "", [NoLists EXCEPT !.limit = limit])
               /\ UNCHANGED <<idxDocs, fuseRecords, lastIndexUpdate>>
        ELSE
          /\ IF IndexIsStale
               THEN /\ idxDocs' = IndexedDocuments(sources, documents)
                    /\ fuseRecords' = FuseRecords(idxDocs')
                    /\ lastIndexUpdate' = clock
               ELSE UNCHANGED <<idxDocs, fuseRecords, lastIndexUpdate>>
          /\ searchResult' =
               SelectSeq(search(Fuse', SimilarQuery(document[1]),
                                [NoLists EXCEPT !.limit = limit + 1]),
                         NotItself)
          /\ lastOp' = SearchOp("SimilarDocuments", id, SimilarQuery(document[1]),
                                [NoLists EXCEPT !.limit = limit])
  /\ reply' = OkReply(<<>>)
  /\ UNCHANGED <<parked, clock, fs, sources, documents, status, nextId, run,
                 crawledMtime, quiet, batch>>

(***************************************************************************)
(* Specifications.                                                         *)
(*   Spec       one source of any configuration is added, crawled (with    *)
(*              file-system calls that fail), re-crawled and deleted while *)
(*              the environment rewrites a file.                           *)
(*   SpecStore  two sources share the store and the index: sources are     *)
(*              added, crawled, deleted and searched.                      *)
(*   SpecTools  the tool calls on two sources, with ids that are in the    *)
(*              store and ids that are not: sources are added, read,       *)
(*              enabled and disabled, deleted, crawled one by one and      *)
(*              crawled all together.  The clock stands still.             *)
(*   SpecLate   one source whose root directory does not exist at first    *)
(*              and exists later is crawled again and again.               *)
(*   SpecSearch two sources on the same tree are crawled while the          *)
(*              environment rewrites a file; searches with every limit and *)
(*              list of the options, and similarity lookups.              *)
(*   SpecConc   one source; delete_source, update_source and a second      *)
(*              crawl_source are handled while a Run waits for the file    *)
(*              system.                                                    *)
(*   SpecCount  one source on the tree; the iteration of the walk for a    *)
(*              file is taken in two steps, before and after the           *)
(*              invocation waits for the store and the parser.             *)
(*   SpecLive   one source of any configuration, crawled repeatedly; the   *)
(*              steps of a Run are weakly fair.                            *)
(*   SpecRecent two sources on the same tree are crawled while the          *)
(*              environment rewrites a file; the recent Documents are      *)
(*              listed and the index is searched.                          *)
(*   SpecSave   saveDocument is called with Documents of every shape       *)
(*              (optional fields present and absent) and the Documents are *)
(*              read back.                                                 *)
(***************************************************************************)
Next ==
  \/ Tick
  \/ \E f \in Writable, b \in Contents, m \in Mtimes : WriteFile(f, b, m)
  \/ \E a \in SourceArgs : nextId = 0 /\ AddSource(a)
  \/ \E id \in DOMAIN sources : DeleteSource(id)
  \/ \E id \in DOMAIN sources : CrawlSource(id)
  \/ \E io \in IoOutcomes : CrawlLocalFiles(io)
  \/ \E io \in IoOutcomes : CrawlEntry(io)
  \/ CrawlSourceFinish

Spec == Init /\ [][Next]_vars

StoreArgs == {a \in SourceArgs : a.filters = NoFilters /\ a.type \in {"local", "git"}
                                 /\ a.url \in {"docs", "remote"}}

NextStore ==
  \/ Tick
  \/ \E a \in StoreArgs : AddSource(a)
  \/ \E id \in DOMAIN sources : DeleteSource(id)
  \/ \E id \in DOMAIN sources : CrawlSource(id)
  \/ CrawlLocalFiles("ok")
  \/ CrawlEntry("ok")
  \/ CrawlSourceFinish
  \/ \E q \in Queries, n \in Limits : Search(q, [NoLists EXCEPT !.limit = n])

SpecStore == Init /\ [][NextStore]_vars

LateArgs ==
  {[name |-> "late", type |-> "local", url |-> "late", filters |-> NoFilters]}

NextLate ==
  \/ Tick
  \/ \E f \in Writable, b \in Contents, m \in Mtimes : WriteFile(f, b, m)
  \/ \E a \in LateArgs : nextId = 0 /\ AddSource(a)
  \/ \E id \in DOMAIN sources : CrawlSource(id)
  \/ \E io \in IoOutcomes : CrawlLocalFiles(io)
  \/ \E io \in IoOutcomes : CrawlEntry(io)
  \/ CrawlSourceFinish

SpecLate == Init /\ [][NextLate]_vars

\* a step of the crawlSource invocation in progress: the promise it awaits
\* (fs.stat, fs.readdir, the parser's read, a store call) has settled
RunStep ==
  \/ \E io \in IoOutcomes : CrawlLocalFiles(io)
  \/ \E io \in IoOutcomes : CrawlEntry(io)
  \/ CrawlSourceFinish

LiveArgs ==
  {a \in SourceArgs : /\ a.type \in {"local", "git"}
                      /\ a.filters \in {NoFilters, Filters(<<>>, <<>>, <<1>>, <<>>)}}

NextLive ==
  \/ \E a \in LiveArgs : nextId = 0 /\ AddSource(a)
  \/ \E id \in DOMAIN sources : CrawlSource(id)
  \/ \E io \in IoOutcomes : CrawlLocalFiles(io)
  \/ \E io \in IoOutcomes : CrawlEntry(io)
  \/ CrawlSourceFinish

\* every file-system and store promise settles, so an invocation in progress
\* is eventually resumed
SpecLive == Init /\ [][NextLive]_vars /\ WF_vars(RunStep)

CountArgs == {a \in SourceArgs : a.url = "docs"}

NextCount ==
  \/ Tick
  \/ \E f \in Writable, b \in Contents, m \in Mtimes : WriteFile(f, b, m)
  \/ \E a \in CountArgs : nextId = 0 /\ AddSource(a)
  \/ \E id \in DOMAIN sources : CrawlSource(id)
  \/ \E io \in IoOutcomes : CrawlLocalFiles(io)
  \/ \E io \in IoOutcomes : CrawlEntry(io)
  \/ \E io \in IoOutcomes : CrawlFileFound(io)
  \/ CrawlFileStore
  \/ CrawlSourceFinish

SpecCount == Init /\ [][NextCount]_vars

ConcArgs == {a \in SourceArgs : a.filters = NoFilters /\ a.url \in {"docs", "missing"}}

NextConc ==
  \/ Tick
  \/ \E a \in ConcArgs : nextId = 0 /\ AddSource(a)
  \/ \E id \in DOMAIN sources : run = IdleRun /\ CrawlSource(id)
  \/ \E id \in DOMAIN sources : parked = IdleRun /\ CrawlSourceDuringRun(id)
  \/ Resume
  \/ CrawlLocalFiles("ok")
  \/ CrawlEntry("ok")
  \/ CrawlSourceFinish
  \/ \E id \in DOMAIN sources : DeleteSourceDuringRun(id)
  \/ \E id \in DOMAIN sources, patch \in UpdatePatches : UpdateSourceDuringRun(id, patch)

SpecConc == Init /\ [][NextConc]_vars

SearchArgs == {a \in StoreArgs : a.type = "local" /\ a.url = "docs"}

NextSearch ==
  \/ Tick
  \/ \E f \in Writable : WriteFile(f, "v2", MaxClock)
  \/ \E a \in SearchArgs : AddSource(a)
  \/ \E id \in DOMAIN sources : CrawlSource(id)
  \/ CrawlLocalFiles("ok")
  \/ CrawlEntry("ok")
  \/ CrawlSourceFinish
  \/ \E c \in SearchCalls : Search(c.query, c.options)
  \/ \E id \in DOMAIN documents, n \in {0, 1} : SimilarDocuments(id, n)

SpecSearch == Init /\ [][NextSearch]_vars

NextRecent ==
  \/ Tick
  \/ \E f \in Writable : WriteFile(f, "v2", MaxClock)
  \/ \E a \in SearchArgs : AddSource(a)
  \/ \E id \in DOMAIN sources : CrawlSource(id)
  \/ CrawlLocalFiles("ok")
  \/ CrawlEntry("ok")
  \/ CrawlSourceFinish
  \/ \E q \in {"v1", "v2"} : Search(q, NoLists)
  \/ \E n \in {1, 50} : RecentDocuments(n)

SpecRecent == Init /\ [][NextRecent]_vars

ToolsArgs == {a \in SourceArgs : a.filters = NoFilters /\ a.type \in {"local", "git"}
                                 /\ a.url \in {"docs", "remote", "afile"}}

NextTools ==
  \/ \E a \in ToolsArgs : AddSource(a)
  \/ \E id \in SourceIds : GetSource(id)
  \/ \E id \in SourceIds, patch \in UpdatePatches : UpdateSource(id, patch)
  \/ \E id \in SourceIds : DeleteSource(id)
  \/ \E id \in SourceIds : CrawlSource(id)
  \/ CrawlLocalFiles("ok")
  \/ CrawlEntry("ok")
  \/ CrawlSourceFinish
  \/ CrawlAllSources
  \/ CrawlAllRun
  \/ CrawlAllCollect
  \/ \E id \in SampleIds : GetDocument(id)
  \/ \E id \in SampleIds : SimilarDocuments(id, 1)

SpecTools == Init /\ [][NextTools]_vars

NextSave ==
  \/ \E doc \in SampleDocuments : SaveDocument(doc)
  \/ \E id \in SampleIds : GetDocument(id)

SpecSave == Init /\ [][NextSave]_vars

TypeOK ==
  /\ clock \in 1..MaxClock
  /\ nextId \in SourceIds \cup {0}
  /\ run.pc \in {"idle", "dispatch", "walk", "file", "returned"}

(***************************************************************************)
(* Properties.                                                             *)
(***************************************************************************)
RunReturned == run.pc = "returned"

RunSucceeded == RunReturned /\ run.statusWrites[Len(run.statusWrites)] = "success"

\* the document id the Run uses for the file with relative path rel
RunDocId(rel) == DocId(run.source.id, FullPath(run.source.url, rel))

\* the entry crawlDirectory handles in the next step of the walk
AtEntry == run.pc = "walk" /\ run.stack # <<>>

\* the step is an iteration of crawlDirectory's loop in which no
\* file-system call failed
EntryStepOk == AtEntry /\ run' # run /\ run'.faults = run.faults

\* C1: whenever search() has served a query, the documents of the index are
\* exactly the Documents of the Store, and every result is a Document that is
\* in the Store.
C1_SearchServesStore ==
  lastOp.op = "Search" =>
    /\ Range(idxDocs) = Range(documents)
    /\ \A i \in 1..Len(searchResult) :
          searchResult[i].document.id \in DOMAIN documents

\* C5: a DeleteSource(s) step leaves no Document with sourceId = s, no Status
\* row and no Source row for s, and leaves the rows of every other source as
\* they were.
C5_DeleteSourceCascade ==
  [][ lastOp'.op = "DeleteSource" =>
        LET s == lastOp'.sid IN
        /\ \A d \in DOMAIN documents' : documents'[d].sourceId # s
        /\ s \notin DOMAIN status'
        /\ s \notin DOMAIN sources'
        /\ \A d \in DOMAIN documents : documents[d].sourceId # s =>
              d \in DOMAIN documents' /\ documents'[d] = documents[d]
        /\ \A t \in (DOMAIN status) \ {s} :
              t \in DOMAIN status' /\ status'[t] = status[t]
        /\ \A t \in (DOMAIN sources) \ {s} :
              t \in DOMAIN sources' /\ sources'[t] = sources[t]
        /\ DOMAIN documents' \subseteq DOMAIN documents
        /\ DOMAIN status' \subseteq DOMAIN status
        /\ DOMAIN sources' \subseteq DOMAIN sources
    ]_vars

\* a source with Documents and a Status row has just been deleted while
\* another source keeps its Documents, Status row and Source row
C5_Witness ==
  /\ lastOp.op = "DeleteSource"
  /\ lastOp.n > 0
  /\ DOMAIN documents # {}
  /\ DOMAIN status # {}
  /\ DOMAIN sources # {}

\* a source whose Run cannot start: not a local source, or a local source
\* whose root is missing or is not a directory
IsFatalSource(source) ==
  source.type \in {"git", "web", "api"} \/ RootKind(source.url) \in {"missing", "file"}

\* rel matches an exclude pattern / an include pattern of the Run's source
Excluded(rel) ==
  run.source.filters.defined /\ SomeMatch(rel, run.source.filters.exclude)

Included(rel) ==
  run.source.filters.defined /\ SomeMatch(rel, run.source.filters.include)

\* the file with relative path rel passes the filter, size and extension checks
IsCandidate(rel) ==
  /\ shouldProcessPath(rel, run.source.filters)
  /\ FileSize(rel) <= MaxSizeOf(run.source.filters)
  /\ canParse(rel)

\* the number of per-file entries of an error list
RECURSIVE FileErrorCount(_)
FileErrorCount(errors) ==
  IF errors = <<>> THEN 0
  ELSE (IF Head(errors).text = "Error processing file " THEN 1 ELSE 0)
       + FileErrorCount(Tail(errors))

\* C2: a Run that repeats the previous successful Run of the same source with
\* no change in between reports documentsProcessed = 0 and documentsSkipped =
\* documentsFound.  Stated for Runs in which no file-system call fails and
\* every visited entry is a candidate file (none rejected by filter, size or
\* extension), the case in which skipped can equal found.
C2_SecondRunSkipsAll ==
  (RunSucceeded /\ run.repeat /\ run.faults = 0 /\ run.rejected = 0) =>
    /\ run.result.documentsProcessed = 0
    /\ run.result.documentsSkipped = run.result.documentsFound

\* C3: when the walk reaches a file that has a stored Document, whose bytes
\* are those of the stored checksum and whose modification time is the one it
\* had when the Document was stored, or an earlier one, the file is not
\* passed to parseFile and the Store is left as it is.
C3_UnchangedFileSkipped ==
  [][ (/\ AtEntry
       /\ run' # run
       /\ Head(run.stack).kind = "file"
       /\ RunDocId(Head(run.stack).rel) \in DOMAIN documents
       /\ documents[RunDocId(Head(run.stack).rel)].checksum
            = Md5(fs[Head(run.stack).rel].bytes)
       /\ fs[Head(run.stack).rel].mtime
            <= crawledMtime[RunDocId(Head(run.stack).rel)])
      => /\ Head(run.stack).rel \notin run'.extracted
         /\ documents' = documents
    ]_vars

\* the walk is at a candidate file that has a stored Document with a checksum
\* other than that of the file's bytes
AtChangedFile ==
  /\ AtEntry
  /\ Head(run.stack).kind = "file"
  /\ IsCandidate(Head(run.stack).rel)
  /\ RunDocId(Head(run.stack).rel) \in DOMAIN documents
  /\ documents[RunDocId(Head(run.stack).rel)].checksum
       # Md5(fs[Head(run.stack).rel].bytes)

ChangedFileStored ==
  /\ RunDocId(Head(run.stack).rel) \in DOMAIN documents'
  /\ documents'[RunDocId(Head(run.stack).rel)].checksum
       = Md5(fs[Head(run.stack).rel].bytes)
  /\ documents'[RunDocId(Head(run.stack).rel)].checksum
       # documents[RunDocId(Head(run.stack).rel)].checksum
  /\ Head(run.stack).rel \in run'.saved

C6_StatusSequence ==
  /\ run.pc \in {"dispatch", "walk"} =>
       /\ run.statusWrites = <<"crawling">>
       /\ status[run.source.id].status = "crawling"
  /\ RunReturned =>
       /\ Len(run.statusWrites) = 2
       /\ run.statusWrites[1] = "crawling"
       /\ run.statusWrites[2] \in {"success", "error"}
       /\ run.statusWrites[2] = "error" <=> IsFatalSource(run.source)
       /\ run.source.id \in DOMAIN status =>
            status[run.source.id].status = run.statusWrites[2]

\* a Run with a per-file or per-directory error has ended in `success`
C6_Witness ==
  /\ RunSucceeded
  /\ Len(run.result.errors) > 0
  /\ run.source.id \in DOMAIN status
  /\ status[run.source.id].status = "success"

\* C7: a Run of a source that cannot be crawled returns one error and zero
\* counts, has visited no entry and parsed no file, and has left the Status
\* `error` with that error as lastError.
C7_FatalRun ==
  (RunReturned /\ IsFatalSource(run.source)) =>
    /\ Len(run.result.errors) = 1
    /\ run.result.errors[1] # NoError
    /\ run.result.documentsFound = 0
    /\ run.result.documentsProcessed = 0
    /\ run.result.documentsSkipped = 0
    /\ run.visited = {} /\ run.extracted = {} /\ run.saved = {}
    /\ run.source.id \in DOMAIN status =>
         /\ status[run.source.id].status = "error"
         /\ status[run.source.id].lastError = run.result.errors[1]
         /\ status[run.source.id].documentsFound = 0
         /\ status[run.source.id].documentsProcessed = 0
         /\ status[run.source.id].documentsSkipped = 0

\* a Run of a local source whose root is not a directory has returned
C7_Witness ==
  /\ RunReturned
  /\ run.source.type = "local"
  /\ RootKind(run.source.url) = "file"
  /\ run.source.id \in DOMAIN status

\* C8: when a Run has returned, every file whose stat, read or parse failed
\* was counted as skipped and has an entry in the error list: the number of
\* failed files is the number of per-file entries.
C8_FileErrorsRecorded ==
  RunReturned =>
    /\ run.failed \subseteq run.counted
    /\ Cardinality(run.failed) = FileErrorCount(run.result.errors)

\* C9: when a Run has just returned, every file that was passed to parseFile
\* (it passed the filter, size and extension checks and was not up to date)
\* was saved and counted as processed, and its Document is in the Store.
C9_CandidateFilesStored ==
  lastOp.op = "CrawlSourceFinish" =>
    /\ \A f \in run.extracted :
          f \in run.saved /\ RunDocId(f) \in DOMAIN documents
    /\ run.result.documentsProcessed = Cardinality(run.extracted)

\* C10 as claimed: after a Run in which every readdir succeeded, every file
\* whose relative path matches an exclude pattern was neither parsed nor
\* saved, and was counted as skipped.
C10_ExcludedCounted ==
  (RunSucceeded /\ run.dirErrors = 0) =>
    \A f \in Files :
      Excluded(f) => f \notin run.extracted /\ f \notin run.saved /\ f \in run.counted

\* C10 as amended: a file whose relative path matches an exclude pattern is
\* never parsed or saved by a Run, and is counted as skipped if the walk
\* visits it; the step that visits it adds one to documentsSkipped and leaves
\* the Store as it is.
C10_ExcludedNeverProcessed ==
  /\ [](\A f \in Files :
          Excluded(f) =>
            /\ f \notin run.extracted
            /\ f \notin run.saved
            /\ f \in run.visited => f \in run.counted)
  /\ [][ (AtEntry /\ run' # run /\ Excluded(Head(run.stack).rel)) =>
           /\ documents' = documents
           /\ run'.result.documentsSkipped = run.result.documentsSkipped + 1
           /\ run'.result.documentsProcessed = run.result.documentsProcessed
       ]_vars

\* a Run has visited and skipped a file under drafts/ that matches both an
\* include pattern and the exclude pattern drafts/**
C10_Witness ==
  /\ RunSucceeded
  /\ run.source.filters.exclude = <<G_draftsAll>>
  /\ Included(P_b)
  /\ Excluded(P_b)
  /\ P_b \in run.visited
  /\ P_b \in run.counted

\* the size limit of the Run's source: the configured filters.maxSize, or
\* 10,485,760 when none is configured
SizeLimit ==
  IF run.source.filters.maxSize # <<>>
    THEN run.source.filters.maxSize[1] ELSE DefaultMaxSize

\* C11: when the walk handles a file that passed the filters (and no
\* file-system call fails), a file larger than the configured maxSize is
\* counted as skipped and nothing is written to the Store, and a file that
\* is not larger is not rejected for its size: if its extension is supported
\* it is counted in documentsFound.  The limit is 10,485,760 when maxSize is
\* not configured.
C11_MaxSizeEnforced ==
  [][ (/\ EntryStepOk
       /\ Head(run.stack).kind = "file"
       /\ shouldProcessPath(Head(run.stack).rel, run.source.filters))
      => IF FileSize(Head(run.stack).rel) > SizeLimit
           THEN /\ Head(run.stack).rel \in run'.counted
                /\ Head(run.stack).rel \notin run'.saved
                /\ run'.result.documentsFound = run.result.documentsFound
                /\ documents' = documents
           ELSE canParse(Head(run.stack).rel) =>
                  run'.result.documentsFound = run.result.documentsFound + 1
    ]_vars

\* the rows of source s in the tables documents and source_status
DocumentsOf(docs, s) == [d \in {x \in DOMAIN docs : docs[x].sourceId = s} |-> docs[d]]

StatusOf(st, s) == IF s \in DOMAIN st THEN <<st[s]>> ELSE <<>>

\* crawlAllEnabledSources has just returned
BatchReturned ==
  batch.pc = "returned" /\ lastOp.op \in {"CrawlAllSources", "CrawlAllCollect"}

\* C12: when crawlAllEnabledSources returns, its Map has exactly the ids of
\* the enabled sources, and each of them has been run to a terminal status
\* whose counts are those of its result, whether or not an earlier source
\* failed; while it runs, the only source of the batch whose status is
\* `crawling` is the one being crawled, the sources already in the Map have
\* a terminal status, and no step changes the Status or the Documents of a
\* disabled source.
C12_RunAllEnabled ==
  /\ [](BatchReturned =>
          /\ DOMAIN batch.results = {s \in DOMAIN sources : sources[s].enabled}
          /\ \A s \in DOMAIN batch.results :
                /\ s \in DOMAIN status
                /\ status[s].status \in {"success", "error"}
                /\ status[s].documentsFound = batch.results[s].documentsFound
                /\ status[s].documentsProcessed = batch.results[s].documentsProcessed
                /\ status[s].documentsSkipped = batch.results[s].documentsSkipped)
  /\ [](batch.pc = "running" =>
          /\ \A s \in DOMAIN batch.results :
                status[s].status \in {"success", "error"}
          /\ \A s \in batch.enabled \cap DOMAIN status :
                status[s].status = "crawling" => s = batch.current)
  /\ [][ batch.pc = "running" =>
           \A s \in DOMAIN sources :
             ~sources[s].enabled =>
               /\ StatusOf(status', s) = StatusOf(status, s)
               /\ DocumentsOf(documents', s) = DocumentsOf(documents, s)
       ]_vars

\* crawlAllEnabledSources has returned the results of two sources: the one
\* crawled first failed, the one crawled after it stored Documents
C12_Witness ==
  /\ BatchReturned
  /\ \E s, t \in DOMAIN batch.results :
        /\ sources[s].name = "afile"
        /\ sources[t].name = "docs"
        /\ batch.results[s].errors # <<>>
        /\ batch.results[t].documentsProcessed > 0

\* the step begins a Run / ends a Run with status `error`
RunBegins == run'.pc = "dispatch" /\ run.pc # "dispatch"

RunFails ==
  /\ run.pc \in {"dispatch", "walk"}
  /\ run'.pc = "returned"
  /\ run'.statusWrites[Len(run'.statusWrites)] = "error"

\* C13: the step that begins a Run and the step that ends it with status
\* `error` leave every stored Document as it was, and between them the Run
\* has saved nothing; the result it returns and the Status it stores hold
\* the one error of this Run and zero counts, whatever earlier Runs reported.
C13_FailedRunKeepsDocuments ==
  /\ [][ RunBegins => documents' = documents ]_vars
  /\ [][ RunFails =>
           /\ documents' = documents
           /\ run.visited = {} /\ run.saved = {} /\ run.replaced = {}
           /\ run'.result = [EmptyResult EXCEPT !.errors = <<FatalError(run.source)>>]
           /\ status'[run.source.id] =
                StatusRow(run.source.id, "error", clock, FatalError(run.source),
                          EmptyResult)
       ]_vars

\* a Run has just ended with status `error` while the Store holds the
\* Documents and the `success` Status of an earlier Run of another source
C13_Witness ==
  /\ lastOp.op = "CrawlLocalFiles"
  /\ RunReturned
  /\ run.statusWrites = <<"crawling", "error">>
  /\ DOMAIN documents # {}
  /\ \E s \in DOMAIN status : status[s].status = "success" /\ status[s].documentsProcessed > 0

\* the full paths of the model: every file of the tree under every root
ModelPaths ==
  {FullPath(u, f) : u \in {"docs", "afile", "missing", "remote"}, f \in Files}

\* the step parses a file and saves its Document
SavesFile ==
  /\ AtEntry
  /\ run'.result.documentsProcessed = run.result.documentsProcessed + 1

C15_SaveThenGet ==
  [][ lastOp'.op = "SaveDocument" =>
        LET d == reply'.results[1] IN
        /\ getDocument(documents', d.id) = <<d>>
        /\ DOMAIN documents' = DOMAIN documents \cup {d.id}
        /\ \A x \in DOMAIN documents \ {d.id} : documents'[x] = documents[x]
    ]_vars

\* the results of the last search satisfy the lists of options o
ResultsSatisfy(o) ==
  \A i \in DOMAIN searchResult :
    LET d == searchResult[i].document IN
    /\ o.sourceIds # <<>> => d.sourceId \in o.sourceIds[1]
    /\ o.types # <<>> => d.type \in o.types[1]
    /\ o.tags # <<>> =>
         /\ d.tags # <<>>
         /\ \E k \in DOMAIN d.tags[1] : d.tags[1][k] \in o.tags[1]

RankOrder ==
  \A i \in 1..(Len(searchResult) - 1) :
    searchResult[i].score >= searchResult[i + 1].score

\* C16: every result of Search satisfies every list that was given (sourceIds,
\* types, tags), there are at most limit results (none when limit is not
\* positive), and the scores do not increase along the list.
C16_SearchRespectsOptions ==
  lastOp.op = "Search" =>
    /\ ResultsSatisfy(lastOp.options)
    /\ searchResult # <<>> => Len(searchResult) <= lastOp.options.limit
    /\ RankOrder

\* the indexed Documents that match the query and satisfy the lists of o
MatchingIndexed(query, o) ==
  { i \in DOMAIN idxDocs :
      /\ FuseScore(idxDocs[i], query) <= FuseThreshold
      /\ Given(o.sourceIds) => idxDocs[i].sourceId \in o.sourceIds[1]
      /\ Given(o.types) => idxDocs[i].type \in o.types[1]
      /\ Given(o.tags) =>
           /\ idxDocs[i].tags # <<>>
           /\ \E k \in DOMAIN idxDocs[i].tags[1] : idxDocs[i].tags[1][k] \in o.tags[1] }

\* C17: a Search with a non-empty list of sourceIds, types or tags returns
\* min(limit, k) results, k being the number of indexed Documents that match
\* the query and satisfy the lists.
C17_FiltersDoNotStarve ==
  ( /\ lastOp.op = "Search"
    /\ lastOp.query # ""
    /\ lastOp.options.limit >= 0
    /\ \/ Given(lastOp.options.sourceIds)
       \/ Given(lastOp.options.types)
       \/ Given(lastOp.options.tags) )
  => Len(searchResult) =
       Min(lastOp.options.limit,
           Cardinality(MatchingIndexed(lastOp.query, lastOp.options)))

\* what the search inside the last SimilarDocuments call returned
InnerResults ==
  search(Fuse, lastOp.query, [NoLists EXCEPT !.limit = lastOp.n + 1])

\* C18: the result of SimilarDocuments(x, n), x a Document id in the Store,
\* does not contain the Document with id x.
C18_SimilarExcludesItself ==
  (lastOp.op = "SimilarDocuments" /\ lastOp.did \in DOMAIN documents) =>
    \A i \in DOMAIN searchResult : searchResult[i].document.id # lastOp.did

\* SimilarDocuments(x, n) has returned other Documents, and the search it ran
\* had found x itself
C18_Witness ==
  /\ lastOp.op = "SimilarDocuments"
  /\ lastOp.did \in DOMAIN documents
  /\ searchResult # <<>>
  /\ \E i \in DOMAIN InnerResults : InnerResults[i].document.id = lastOp.did

SourceCalls == {"GetSource", "UpdateSource", "DeleteSource", "CrawlSource"}

DocumentCalls == {"GetDocument", "SimilarDocuments"}

\* C19: GetSource, UpdateSource, DeleteSource, CrawlSource, GetDocument and
\* SimilarDocuments called with an id that is not in the Store reply with an
\* error that names the id, and leave the Documents, the Sources and the
\* Status rows as they were.
C19_MissingIdRejected ==
  [][ /\ (lastOp'.op \in SourceCalls /\ lastOp'.sid \notin DOMAIN sources) =>
           /\ reply' = ErrorReply(SourceNotFound(lastOp'.sid))
           /\ UNCHANGED <<documents, sources, status>>
      /\ (lastOp'.op \in DocumentCalls /\ lastOp'.did \notin DOMAIN documents) =>
           /\ reply' = ErrorReply(DocumentNotFound(lastOp'.did))
           /\ UNCHANGED <<documents, sources, status>>
    ]_vars

\* the number of directories between the source root and the entry
DirectoriesBelowRoot(rel) == Cardinality({i \in DOMAIN rel : rel[i] = "/"})

\* the configured maxDepth, 10 when not configured
ConfiguredMaxDepth(filters) ==
  IF filters.maxDepth = <<>> THEN DefaultMaxDepth ELSE filters.maxDepth[1]

\* C20: a Run visits, extracts, stores and counts as skipped only entries of
\* directories at a depth below filters.maxDepth, the root being at depth 0.
C20_DepthLimit ==
  run.pc # "idle" =>
    \A rel \in run.visited \cup run.extracted \cup run.saved \cup run.counted :
      DirectoriesBelowRoot(rel) < ConfiguredMaxDepth(run.source.filters)

\* include patterns are present and rel matches none of them
NotIncluded(rel) ==
  /\ run.source.filters.defined
  /\ Len(run.source.filters.include) > 0
  /\ ~SomeMatch(rel, run.source.filters.include)

\* path f lies below the directory with relative path d
Below(f, d) ==
  /\ Len(f) > Len(d) + 1
  /\ SubSeq(f, 1, Len(d) + 1) = d \o <<"/">>

\* C21: with include patterns present, the step of the walk that handles an
\* entry (file or directory) matching none of them adds one to
\* documentsSkipped and nothing else: the entry is not found, extracted or
\* stored, and no entry of a rejected directory is pushed; so the descendants
\* of a rejected directory are never visited, counted, extracted or saved.
C21_NotIncludedSkipped ==
  /\ [][ (AtEntry /\ run' # run /\ NotIncluded(Head(run.stack).rel)) =>
           /\ run'.result.documentsSkipped = run.result.documentsSkipped + 1
           /\ run'.result.documentsFound = run.result.documentsFound
           /\ run'.result.documentsProcessed = run.result.documentsProcessed
           /\ run'.result.errors = run.result.errors
           /\ run'.stack = Tail(run.stack)
           /\ run'.extracted = run.extracted
           /\ run'.saved = run.saved
           /\ documents' = documents
       ]_vars
  /\ [](run.pc # "idle" =>
          \A d \in run.visited : NotIncluded(d) =>
            /\ d \in run.counted
            /\ d \notin run.extracted \cup run.saved
            /\ \A f \in Files : Below(f, d) =>
                 f \notin run.visited \cup run.counted \cup run.extracted \cup run.saved)

\* a Run with include = [*.md] has counted the directory drafts as skipped
\* and returned without visiting the files below it
C21_Witness ==
  /\ RunSucceeded
  /\ run.source.filters.include = <<G_md>>
  /\ P_drafts \in run.counted
  /\ P_b \notin run.visited
  /\ P_a \in run.visited

\* a Run has counted as skipped the file drafts/img.png, which matches
\* neither of the include patterns *.md and drafts
NotIncludedFileSkipped ==
  /\ RunSucceeded
  /\ NotIncluded(P_img)
  /\ P_img \in run.counted

\* the step ends a Run: crawlSource returns
RunEnds == run.pc \in {"dispatch", "walk"} /\ run'.pc = "returned"

\* C22: the step that ends a Run with status `success` sets the stored
\* lastCrawled of the Run's source to the time of that step and changes
\* nothing else in the Source rows; the step that ends a Run with status
\* `error`, and every other step of a Run, leaves the Source rows unchanged.
C22_LastCrawledOnSuccess ==
  [][ /\ (RunEnds /\ status'[run.source.id].status = "success") =>
           sources' = [sources EXCEPT ![run.source.id].lastCrawled = clock]
      /\ (RunEnds /\ status'[run.source.id].status = "error") =>
           sources' = sources
      /\ (run' # run /\ ~RunEnds) => sources' = sources
    ]_vars

\* a Run that began after the previous Run of the source has ended with
\* `success`, at a later time, and the stored lastCrawled is that time
C22_Witness ==
  /\ RunSucceeded
  /\ lastOp.op = "CrawlSourceFinish"
  /\ run.repeat
  /\ clock > 1
  /\ sources[run.source.id].lastCrawled = clock

\* C23: when a Run has returned, the Store holds one Status row for its
\* source: the row has the Run's terminal status and the counts of the
\* returned result, and after `success` it has no lastError, also when the
\* Status the Run found was `error`.
C23_StatusOverwritten ==
  RunReturned =>
    /\ run.source.id \in DOMAIN status
    /\ LET st == status[run.source.id] IN
       /\ st.sourceId = run.source.id
       /\ st.status = run.statusWrites[Len(run.statusWrites)]
       /\ st.documentsFound = run.result.documentsFound
       /\ st.documentsProcessed = run.result.documentsProcessed
       /\ st.documentsSkipped = run.result.documentsSkipped
       /\ st.status = "success" => st.lastError = NoError
       /\ st.status = "error" => st.lastError = run.result.errors[Len(run.result.errors)]

\* a Run that found the Status `error` has ended with `success` and has
\* processed a file
C23_Witness ==
  /\ RunSucceeded
  /\ run.previous = "error"
  /\ run.result.documentsProcessed > 0
  /\ status[run.source.id].lastError = NoError

\* the positions of the index array whose Document matches the query
MatchingPositions(query) ==
  {i \in DOMAIN idxDocs : FuseScore(idxDocs[i], query) <= FuseThreshold}

\* C24: a Search served by the index, also after RecentDocuments has sorted
\* the index's array, returns the Documents whose fields match the query:
\* every result carries the score of its own Document, and when the limit
\* cuts nothing the results are exactly the indexed Documents that match.
C24_RecentKeepsSearch ==
  (lastOp.op = "Search" /\ lastOp.query # "") =>
    /\ \A i \in DOMAIN searchResult :
         FuseScore(searchResult[i].document, lastOp.query)
           = 100 - searchResult[i].score
    /\ ( /\ lastOp.options.limit >= Len(idxDocs)
         /\ ~Given(lastOp.options.sourceIds)
         /\ ~Given(lastOp.options.types)
         /\ ~Given(lastOp.options.tags) )
       => {searchResult[i].document.id : i \in DOMAIN searchResult}
            = {idxDocs[i].id : i \in MatchingPositions(lastOp.query)}

\* the step is one of a crawlSource invocation and ends it
RunReturns ==
  RunEnds /\ lastOp'.op \in {"CrawlLocalFiles", "CrawlSourceFinish"}

\* C25: when a Run returns whose source was deleted while it was in progress
\* (the Source row is gone before the Run's last step), the Store holds no
\* Source row, no Status row and no Document of that source.
C25_DeletedSourceStaysDeleted ==
  [][ (RunReturns /\ run.source.id \notin DOMAIN sources) =>
        /\ run.source.id \notin DOMAIN sources'
        /\ run.source.id \notin DOMAIN status'
        /\ \A d \in DOMAIN documents' :
             documents'[d].sourceId # run.source.id ]_vars

\* C26: the step that ends a Run in `success` changes, in the stored Source
\* rows, only lastCrawled of the Run's source: name, enabled and filters stay
\* as stored, also when update_source wrote them while the Run was in progress.
C26_UpdateSourceNotUndone ==
  [][ ( /\ RunReturns
        /\ ~RunThrew
        /\ lastOp'.op = "CrawlSourceFinish"
        /\ run.source.id \in DOMAIN sources ) =>
        sources' = [sources EXCEPT ![run.source.id].lastCrawled = clock] ]_vars

\* C27: while a crawlSource invocation is in progress, having written its
\* first status and not yet its terminal one, the stored Status of its source
\* is `crawling`, also when a second invocation for the same source overlaps.
C27_CrawlingWhileInProgress ==
  \A r \in {run, parked} :
    (r.pc \in {"dispatch", "walk"} /\ r.source.id \in DOMAIN status)
      => status[r.source.id].status = "crawling"

\* documentsProcessed <= documentsFound <= documentsProcessed + documentsSkipped
CountsOrdered(result) ==
  /\ result.documentsProcessed <= result.documentsFound
  /\ result.documentsFound <= result.documentsProcessed + result.documentsSkipped

\* every file counted in documentsFound is counted once more, in
\* documentsProcessed or in documentsSkipped, and the three counts are those
\* of the files found, stored and passed over
CountedOnceMore ==
  /\ run.result.documentsFound = Cardinality(run.found)
  /\ run.result.documentsProcessed = Cardinality(run.saved)
  /\ run.result.documentsSkipped = Cardinality(run.counted)
  /\ run.saved \subseteq run.found
  /\ run.found \subseteq run.saved \cup run.counted
  /\ run.saved \cap run.counted = {}

\* C28 as stated: the counts are ordered when the Run has returned and at
\* every point during it, and every file found is counted once more by the
\* time the Run returns.
C28_CountsAtEveryPoint ==
  /\ run.pc # "idle" => CountsOrdered(run.result)
  /\ RunReturned => CountedOnceMore

\* C28, amended: the counts are ordered when the Run has returned and
\* whenever it is between two entries of the walk; inside the iteration for a
\* file, after documentsFound++ and before the file is counted as processed
\* or skipped, documentsFound is one more:
\* documentsProcessed < documentsFound <= documentsProcessed + documentsSkipped + 1.
\* Every file found is counted once more by the time the Run returns.
C28_CountsBetweenEntries ==
  /\ run.pc \in {"dispatch", "walk", "returned"} => CountsOrdered(run.result)
  /\ run.pc = "file" =>
       /\ run.result.documentsProcessed < run.result.documentsFound
       /\ run.result.documentsFound
            <= run.result.documentsProcessed + run.result.documentsSkipped + 1
       /\ CountsOrdered([run.result EXCEPT !.documentsFound = @ - 1])
  /\ RunReturned => CountedOnceMore

\* a Run has returned that stored a file, passed over a file it had found
\* and passed over an entry it had not
C28_Witness ==
  /\ RunReturned
  /\ run.saved # {}
  /\ run.found \cap run.counted # {}
  /\ run.counted \ run.found # {}

\* a Run is in progress
RunInProgress == run.pc \in {"dispatch", "walk"}

\* the stored Status of the Run's source is a terminal one
TerminalStatus ==
  /\ run.source.id \in DOMAIN status
  /\ status[run.source.id].status \in {"success", "error"}

\* C29: a Run in progress eventually returns, and whenever a Run has
\* returned the stored Status of its source is `success` or `error`.
C29_RunTerminates ==
  /\ RunInProgress ~> RunReturned
  /\ [](RunReturned => TerminalStatus)

\* a Run that walked the tree down to the file in the subdirectory has
\* returned
C29_Witness ==
  /\ RunReturned
  /\ P_b \in run.visited
  /\ TerminalStatus

\* C30: SimilarDocuments(id, n) returns at most n results.
C30_SimilarAtMostLimit ==
  lastOp.op = "SimilarDocuments" => Len(searchResult) <= lastOp.options.limit

====
